---- MODULE Spec2Model ----
(***************************************************************************)
(* Model of the identity and trust-token subsystem of local-sage-bot:      *)
(* server/auth/AuthenticationSystem.ts (register, login, verifyEmail,      *)
(* requestPasswordReset, resetPassword, token ledger, rate limiter,        *)
(* sessions, periodic cleanup) and server/auth/EmailService.ts (the email  *)
(* queue and its processor) over the tables of the shared schema.          *)
(*                                                                         *)
(* Every request is an async function.  Node runs the code between two     *)
(* awaits without interruption, so one action of the model is: the store   *)
(* call of one await executes, and the code after it runs up to the next   *)
(* await.  Requests of different callers interleave at these points.       *)
(***************************************************************************)
EXTENDS Integers, Sequences, FiniteSets, TLC

\* ------------------------------------------------------------------ bounds
\* The AuthConfig the system is constructed with (the constructor takes a
\* Partial<AuthConfig>).  Time is counted in abstract ticks; the defaults of
\* the source (24 h, 1 h, 5 min, 5 attempts / 15 min, 24 h) are scaled down
\* so that expiry and the rate limit are reached inside MaxTime.
emailVerification == 2
passwordReset == 1
twoFactor == 1
loginAttempts == 2
timeWindow == 1
sessionTimeout == 2
\* Date.now() runs from 0 to MaxTime.
MaxTime == 2
\* Number of requests the callers start in one behaviour.
MaxReq == 3

\* The callers whose requests run concurrently.
Procs == {"p1", "p2"}

\* ------------------------------------------------------------------ state
VARIABLES
    users,          \* table users: sequence of rows, id = index (serial)
    authTokens,     \* table auth_tokens: set of rows, token is unique
    twoFactorAuth,  \* table two_factor_auth: sequence of rows, id = index
    sessions,       \* table sessions: set of rows, id is the primary key
    attempts,       \* this.loginAttempts: identifier -> NoEntry or {count, lastAttempt}
    now,            \* Date.now()
    req,            \* per caller: the request in flight, its locals and its result
    cleanupPc,      \* position of the setInterval callback of setupCleanupTasks
    nreq,           \* requests started so far
    issued,         \* history: number of token values drawn so far
    minted,         \* history: number of session ids drawn so far
    consumed,       \* history: token values markTokenAsUsed was called on
    fails,          \* history: per identifier, the times of the failures recorded
                    \* since the last clearRateLimit
    wins,           \* history: the token values of the requests that returned success
    emailQueue,     \* table email_queue: sequence of rows, id = index (serial)
    proc,           \* per EmailService instance: isProcessing and the position of
                    \* processEmailQueue with its locals
    storeFailures   \* history: number of email_queue store calls that have thrown

vars == <<users, authTokens, twoFactorAuth, sessions, attempts, now, req,
          cleanupPc, nreq, issued, minted, consumed, fails, wins,
          emailQueue, proc, storeFailures>>

\* What AuthenticationSystem.ts reads and writes, and what EmailService.ts does.
authVars == <<users, authTokens, twoFactorAuth, sessions, attempts, now, req,
              cleanupPc, nreq, issued, minted, consumed, fails, wins>>
mailVars == <<emailQueue, proc, storeFailures>>

NoEntry == [count |-> 0, lastAttempt |-> -1]
Emails == {"alice@x.com", "bob@x.com", "carol@x.com", "nobody@x.com", "dave@x.com", "dave.x.com"}
Usernames == {"alice", "bob", "carol", "dave", "dan"}
Passwords == {"Str0ng!Pass", "N3w!Passw", "weakpass"}
Secrets == {"SECRET1", "SECRET2"}
TokenTypes == {"email_verification", "password_reset", "2fa"}

\* What validatePassword looks at: length and the four character classes.
PasswordShape(pw) ==
    CASE pw = "Str0ng!Pass" -> [length |-> 11, upper |-> TRUE, lower |-> TRUE, digit |-> TRUE, nonalpha |-> TRUE]
      [] pw = "N3w!Passw"   -> [length |-> 9, upper |-> TRUE, lower |-> TRUE, digit |-> TRUE, nonalpha |-> TRUE]
      [] OTHER              -> [length |-> 8, upper |-> FALSE, lower |-> TRUE, digit |-> FALSE, nonalpha |-> FALSE]

minLength == 8

validatePassword(pw) ==
    LET s == PasswordShape(pw)
    IN  s.length >= minLength /\ s.upper /\ s.lower /\ s.digit /\ s.nonalpha

\* What validateEmail's /^[^\s@]+@[^\s@]+\.[^\s@]+$/ looks at: the number of @ and of
\* blanks, and the lengths of the part before the @, of the part between the @ and
\* the last dot, and of the part after that dot.
EmailShape(e) ==
    CASE e = "dave.x.com"   -> [ats |-> 0, blanks |-> 0, local |-> 10, host |-> 0, tld |-> 0]
      [] e = "alice@x.com"  -> [ats |-> 1, blanks |-> 0, local |-> 5, host |-> 1, tld |-> 3]
      [] e = "carol@x.com"  -> [ats |-> 1, blanks |-> 0, local |-> 5, host |-> 1, tld |-> 3]
      [] e = "nobody@x.com" -> [ats |-> 1, blanks |-> 0, local |-> 6, host |-> 1, tld |-> 3]
      [] e = "bob@x.com"    -> [ats |-> 1, blanks |-> 0, local |-> 3, host |-> 1, tld |-> 3]
      [] OTHER              -> [ats |-> 1, blanks |-> 0, local |-> 4, host |-> 1, tld |-> 3]

validateEmail(e) ==
    LET s == EmailShape(e)
    IN  s.ats = 1 /\ s.blanks = 0 /\ s.local >= 1 /\ s.host >= 1 /\ s.tld >= 1

\* config.security.requireEmailVerification (line 81).
requireEmailVerification == TRUE

\* bcrypt.hash / bcrypt.compare: a hash matches exactly the password it was made from.
Hash(pw) == <<"bcrypt", pw>>
Compare(pw, hash) == hash = Hash(pw)

\* speakeasy.totp.verify accepting every code.
TotpAcceptAll(secret, code) == TRUE

\* speakeasy.totp.verify: a code is accepted for the secret it was generated from.
TotpVerify(secret, code) == code = secret

\* ------------------------------------------------------------ token ledger
\* db.query.x.findFirst over a set of rows: some matching row, or NoRow.
NoRow == [token |-> 0, userId |-> 0, type |-> "none", expiresAt |-> 0, isUsed |-> FALSE]

\* verifyAuthToken with no check of isUsed.
VerifyIgnoringUsed(rows, token, type, t) ==
    LET m == {r \in rows : r.token = token /\ r.type = type /\ r.expiresAt > t}
    IN  IF m = {} THEN NoRow ELSE CHOOSE r \in m : TRUE

\* verifyAuthToken accepting a token at expiresAt itself.
VerifyAtExpiry(rows, token, type, t) ==
    LET m == {r \in rows : r.token = token /\ r.type = type /\ ~r.isUsed /\ r.expiresAt >= t}
    IN  IF m = {} THEN NoRow ELSE CHOOSE r \in m : TRUE

\* verifyAuthToken with no check of the type.
VerifyAnyType(rows, token, type, t) ==
    LET m == {r \in rows : r.token = token /\ ~r.isUsed /\ r.expiresAt > t}
    IN  IF m = {} THEN NoRow ELSE CHOOSE r \in m : TRUE

verifyAuthToken(rows, token, type, t) ==
    LET m == {r \in rows : r.token = token /\ r.type = type /\ ~r.isUsed /\ r.expiresAt > t}
    IN  IF m = {} THEN NoRow ELSE CHOOSE r \in m : TRUE

\* markTokenAsUsed whose update matches no row.
MarkNothing(rows, token) == rows

\* markTokenAsUsed that also marks the other tokens of the same user and kind.
MarkAllOfKind(rows, token) ==
    {IF \E c \in rows : c.token = token /\ c.userId = r.userId /\ c.type = r.type
     THEN [r EXCEPT !.isUsed = TRUE] ELSE r : r \in rows}

markTokenAsUsed(rows, token) ==
    {IF r.token = token THEN [r EXCEPT !.isUsed = TRUE] ELSE r : r \in rows}

\* generateAuthToken returning the value without storing the row.
GenerateWithoutInsert(rows, value, userId, type, expiresIn, t) == rows

\* generateAuthToken: a fresh value (crypto.randomBytes(32)), expiresAt = now + expiresIn.
generateAuthToken(rows, value, userId, type, expiresIn, t) ==
    rows \cup {[token |-> value, userId |-> userId, type |-> type,
                expiresAt |-> t + expiresIn, isUsed |-> FALSE]}

\* ----------------------------------------------------------------- sessions
\* invalidateUserSessions deleting nothing.
InvalidateNothing(rows, userId) == rows

invalidateUserSessions(rows, userId) == {s \in rows : s.userId # userId}

createSession(rows, id, userId, t) ==
    rows \cup {[id |-> id, userId |-> userId, expiresAt |-> t + sessionTimeout]}

\* ------------------------------------------------------------- rate limiter
\* checkRateLimit allowing one attempt more than loginAttempts.
CheckOffByOne(map, identifier, t) ==
    LET a == map[identifier]
    IN  IF a = NoEntry THEN [ok |-> TRUE, map |-> map]
        ELSE IF t - a.lastAttempt > timeWindow
             THEN [ok |-> TRUE, map |-> [map EXCEPT ![identifier] = NoEntry]]
             ELSE [ok |-> a.count <= loginAttempts, map |-> map]

\* checkRateLimit that never refuses.
CheckAlwaysAllows(map, identifier, t) == [ok |-> TRUE, map |-> map]

\* checkRateLimit returns the answer and, when the window has elapsed, deletes the entry.
checkRateLimit(map, identifier, t) ==
    LET a == map[identifier]
    IN  IF a = NoEntry THEN [ok |-> TRUE, map |-> map]
        ELSE IF t - a.lastAttempt > timeWindow
             THEN [ok |-> TRUE, map |-> [map EXCEPT ![identifier] = NoEntry]]
             ELSE [ok |-> a.count < loginAttempts, map |-> map]

recordFailedAttempt(map, identifier, t) ==
    [map EXCEPT ![identifier] = [count |-> @.count + 1, lastAttempt |-> t]]

\* clearRateLimit that leaves the entry.
ClearNothing(map, identifier) == map

clearRateLimit(map, identifier) == [map EXCEPT ![identifier] = NoEntry]

\* The return for an inactive account with a failed attempt recorded first.
InactiveRecorded(map, identifier, t) ==
    [map EXCEPT ![identifier] = [count |-> @.count + 1, lastAttempt |-> t]]

\* lines 224-230: the return for an inactive account leaves the map as it is.
Inactive(map, identifier, t) == map

\* --------------------------------------------------------------- requests
\* The locals of one request.  The last fields are history: seen* is what the ledger
\* held for the presented token value at the moment verifyAuthToken read it, hist is
\* what the failures recorded for the identifier looked like when the rate limit was
\* checked, cntBefore is the counter of the identifier after that check, sessBefore
\* the session rows at the start of the request.
Idle == [op |-> "idle", pc |-> "idle", email |-> "", password |-> "", username |-> "",
         token |-> 0, code |-> "none", user |-> 0, hash |-> <<>>, tf |-> 0, secret |-> "",
         authUser |-> 0, result |-> "none", success |-> FALSE, bearer |-> FALSE,
         outToken |-> 0, seenUsed |-> FALSE, seenAge |-> "none", seenType |-> "none",
         seenOwner |-> 0, hist |-> "none", histLen |-> 0, cntBefore |-> 0,
         sessBefore |-> {}]

Upd(r, new) == [k \in DOMAIN r |-> IF k \in DOMAIN new THEN new[k] ELSE r[k]]

Set(p, new) == req' = [req EXCEPT ![p] = Upd(@, new)]

Finish(p, result, success) ==
    Set(p, [pc |-> "done", result |-> result, success |-> success])

\* A returned result is handed to the caller before anything else happens.
NoneReturning == \A q \in Procs : req[q].pc # "done"

\* Two request slots: a request takes the first slot when it is free, the second
\* only when it overlaps a request in the first.
CanStart(p) ==
    /\ NoneReturning
    /\ req[p].pc = "idle"
    /\ nreq < MaxReq
    /\ (p = "p2" => req["p1"].pc # "idle")

At(p, op, pc) == NoneReturning /\ req[p].op = op /\ req[p].pc = pc

\* The caller takes the result; the slot is free again.
Return(p) ==
    /\ req[p].pc = "done"
    /\ req' = [req EXCEPT ![p] = Idle]
    /\ UNCHANGED <<users, authTokens, twoFactorAuth, sessions, attempts, now, cleanupPc,
                   nreq, issued, minted, consumed, fails>>
    /\ UNCHANGED <<wins, mailVars>>

\* findFirst on users by email / by username: the row id, 0 when there is none.
UserByEmail(email) ==
    LET m == {i \in DOMAIN users : users[i].email = email}
    IN  IF m = {} THEN 0 ELSE CHOOSE i \in m : TRUE

UserByUsername(username) ==
    LET m == {i \in DOMAIN users : users[i].username = username}
    IN  IF m = {} THEN 0 ELSE CHOOSE i \in m : TRUE

\* findFirst on two_factor_auth by userId and isEnabled: the row id, 0 when there is none.
\* Postgres gives no order without ORDER BY: any matching row may be the first.
TwoFactorRows(userId, enabled) ==
    {i \in DOMAIN twoFactorAuth :
        twoFactorAuth[i].userId = userId /\ twoFactorAuth[i].isEnabled = enabled}

\* History: what the ledger holds for a token value at time t.
Seen(token, t) ==
    LET m == {r \in authTokens : r.token = token}
        r == CHOOSE x \in m : TRUE
    IN  IF m = {} THEN [seenUsed |-> token \in consumed, seenAge |-> "norow",
                        seenType |-> "norow", seenOwner |-> 0]
        ELSE [seenUsed |-> token \in consumed,
              seenAge |-> IF t < r.expiresAt THEN "before"
                          ELSE IF t = r.expiresAt THEN "at" ELSE "after",
              seenType |-> r.type, seenOwner |-> r.userId]

\* History: the failures recorded for an identifier since its counter was last
\* cleared, seen at time t: "full" when the last loginAttempts of them all lie inside
\* the window, "stale" when the last one is older than the window.
History(times, t) ==
    LET n == Len(times)
    IN  IF n = 0 THEN "empty"
        ELSE IF t - times[n] > timeWindow THEN "stale"
        ELSE IF n >= loginAttempts /\ t - times[n - loginAttempts + 1] <= timeWindow
             THEN "full"
        ELSE "some"

\* Token values a caller can present: every value issued so far.
Presentable == 0 .. issued

\* ------------------------------------------------------------------ login
\* login(credentials), lines 202-209: the code before the first await.
LoginCall(p, email, password, token, code) ==
    /\ CanStart(p)
    /\ nreq' = nreq + 1
    /\ LET c == checkRateLimit(attempts, email, now)
           start == Upd(Idle, [op |-> "login", email |-> email, password |-> password,
                               token |-> token, code |-> code,
                               hist |-> History(fails[email], now),
                               histLen |-> Len(fails[email]),
                               cntBefore |-> c.map[email].count,
                               sessBefore |-> sessions])
       IN  /\ attempts' = c.map
           /\ IF c.ok
              THEN req' = [req EXCEPT ![p] = Upd(start, [pc |-> "findUser"])]
              ELSE req' = [req EXCEPT ![p] =
                              Upd(start, [pc |-> "done", result |-> "RateLimited"])]
    /\ UNCHANGED <<users, authTokens, twoFactorAuth, sessions, now, cleanupPc,
                   issued, minted, consumed, fails>>
    /\ UNCHANGED <<wins, mailVars>>

\* lines 211-230: the user row arrives; unknown email and inactive account end the request.
LoginFindUser(p) ==
    /\ At(p, "login", "findUser")
    /\ LET u == UserByEmail(req[p].email)
       IN  IF u = 0
           THEN /\ attempts' = recordFailedAttempt(attempts, req[p].email, now)
                /\ fails' = [fails EXCEPT ![req[p].email] = Append(@, now)]
                /\ Finish(p, "InvalidCredentials", FALSE)
           ELSE /\ UNCHANGED fails
                /\ IF ~users[u].isActive
                   THEN /\ attempts' = Inactive(attempts, req[p].email, now)
                        /\ Finish(p, "NotActivated", FALSE)
                   ELSE /\ UNCHANGED attempts
                        /\ Set(p, [pc |-> "compare", user |-> u,
                                   hash |-> users[u].password])
    /\ UNCHANGED <<users, authTokens, twoFactorAuth, sessions, now, cleanupPc, nreq,
                   issued, minted, consumed>>
    /\ UNCHANGED <<wins, mailVars>>

\* lines 232-248: bcrypt.compare resolves; a mismatch is recorded, a match goes on to
\* the query for the enabled two-factor row.
LoginCompare(p) ==
    /\ At(p, "login", "compare")
    /\ IF ~Compare(req[p].password, req[p].hash)
       THEN /\ attempts' = recordFailedAttempt(attempts, req[p].email, now)
            /\ fails' = [fails EXCEPT ![req[p].email] = Append(@, now)]
            /\ Finish(p, "InvalidCredentials", FALSE)
       ELSE /\ UNCHANGED <<attempts, fails>>
            /\ Set(p, [pc |-> "findTwoFactor"])
    /\ UNCHANGED <<users, authTokens, twoFactorAuth, sessions, now, cleanupPc, nreq,
                   issued, minted, consumed>>
    /\ UNCHANGED <<wins, mailVars>>

\* lines 243-266: the enabled two-factor row arrives.  Without a code or a challenge
\* token a challenge token is issued and returned (generateAuthToken, lines 567-580);
\* the insert of the fresh row is taken with this step.
LoginFindTwoFactor(p) ==
    /\ At(p, "login", "findTwoFactor")
    /\ LET rows == TwoFactorRows(req[p].user, TRUE)
       IN  IF rows = {}
           THEN /\ Set(p, [pc |-> "createSession"])
                /\ UNCHANGED <<authTokens, issued>>
           ELSE \E tf \in rows :
                   IF req[p].code = "none" \/ req[p].token = 0
                   THEN /\ issued' = issued + 1
                        /\ authTokens' = generateAuthToken(authTokens, issued + 1,
                                             req[p].user, "2fa", twoFactor, now)
                        /\ Set(p, [pc |-> "done", result |-> "RequiresTwoFactor",
                                   outToken |-> issued + 1])
                   ELSE /\ Set(p, [pc |-> "verifyTwoFactor", tf |-> tf,
                                   secret |-> twoFactorAuth[tf].secret])
                        /\ UNCHANGED <<authTokens, issued>>
    /\ UNCHANGED <<users, twoFactorAuth, sessions, attempts, now, cleanupPc, nreq,
                   minted, consumed, fails>>
    /\ UNCHANGED <<wins, mailVars>>

\* The test of the challenge token without the comparison of its owner.
RefusedIfMissing(tokenValid, userId) == tokenValid = NoRow

\* line 270: the challenge token is refused when verifyAuthToken returned nothing or
\* the row belongs to another user than the one logging in.
Refused(tokenValid, userId) == tokenValid = NoRow \/ tokenValid.userId # userId

\* lines 268-290: verifyAuthToken(twoFactorToken, '2fa') resolves, then the TOTP code
\* is checked; both failures return without touching the rate limiter.
LoginVerifyTwoFactor(p) ==
    /\ At(p, "login", "verifyTwoFactor")
    /\ LET tokenValid == verifyAuthToken(authTokens, req[p].token, "2fa", now)
           seen == Seen(req[p].token, now)
       IN  IF Refused(tokenValid, req[p].user)
           THEN Set(p, seen @@ [pc |-> "done", result |-> "InvalidTwoFactorToken"])
           ELSE IF ~TotpVerify(req[p].secret, req[p].code)
                THEN Set(p, seen @@ [pc |-> "done", result |-> "InvalidTwoFactorCode",
                                     authUser |-> tokenValid.userId])
                ELSE Set(p, seen @@ [pc |-> "markUsed", authUser |-> tokenValid.userId])
    /\ UNCHANGED <<users, authTokens, twoFactorAuth, sessions, attempts, now, cleanupPc,
                   nreq, issued, minted, consumed, fails>>
    /\ UNCHANGED <<wins, mailVars>>

\* line 293: markTokenAsUsed(twoFactorToken).
LoginMarkUsed(p) ==
    /\ At(p, "login", "markUsed")
    /\ authTokens' = markTokenAsUsed(authTokens, req[p].token)
    /\ consumed' = consumed \cup {req[p].token}
    /\ Set(p, [pc |-> "updateLastUsed"])
    /\ UNCHANGED <<users, twoFactorAuth, sessions, attempts, now, cleanupPc, nreq,
                   issued, minted, fails>>
    /\ UNCHANGED <<wins, mailVars>>

\* lines 296-298: lastUsed of the two-factor row is set.
LoginUpdateLastUsed(p) ==
    /\ At(p, "login", "updateLastUsed")
    /\ twoFactorAuth' = [twoFactorAuth EXCEPT ![req[p].tf].lastUsed = now]
    /\ Set(p, [pc |-> "createSession"])
    /\ UNCHANGED <<users, authTokens, sessions, attempts, now, cleanupPc, nreq,
                   issued, minted, consumed, fails>>
    /\ UNCHANGED <<wins, mailVars>>

\* lines 301-315: the session row is inserted (its expiresAt is taken at the insert),
\* the rate limit cleared, success returned.
LoginCreateSession(p) ==
    /\ At(p, "login", "createSession")
    /\ minted' = minted + 1
    /\ sessions' = createSession(sessions, minted + 1, req[p].user, now)
    /\ attempts' = clearRateLimit(attempts, req[p].email)
    /\ fails' = [fails EXCEPT ![req[p].email] = <<>>]
    /\ Set(p, [pc |-> "done", result |-> "LoginSuccessful", success |-> TRUE,
               bearer |-> TRUE])
    /\ UNCHANGED <<users, authTokens, twoFactorAuth, now, cleanupPc, nreq, issued,
                   consumed>>
    /\ wins' = IF req[p].tf # 0 THEN Append(wins, req[p].token) ELSE wins
    /\ UNCHANGED mailVars

\* ------------------------------------------------------------ verifyEmail
\* lines 329-335: verifyAuthToken(token, 'email_verification') resolves.
VerifyEmailVerify(p, token) ==
    /\ CanStart(p)
    /\ nreq' = nreq + 1
    /\ LET authToken == verifyAuthToken(authTokens, token, "email_verification", now)
           start == Upd(Idle, Seen(token, now) @@ [op |-> "verifyEmail", token |-> token])
       IN  IF authToken = NoRow
           THEN req' = [req EXCEPT ![p] =
                           Upd(start, [pc |-> "done", result |-> "InvalidOrExpiredToken"])]
           ELSE req' = [req EXCEPT ![p] =
                           Upd(start, [pc |-> "activate", authUser |-> authToken.userId])]
    /\ UNCHANGED <<users, authTokens, twoFactorAuth, sessions, attempts, now, cleanupPc,
                   issued, minted, consumed, fails>>
    /\ UNCHANGED <<wins, mailVars>>

\* verifyEmail that goes on to markTokenAsUsed without activating the account.
VerifyEmailSkipActivate(p) ==
    /\ At(p, "verifyEmail", "activate")
    /\ Set(p, [pc |-> "markUsed"])
    /\ UNCHANGED <<users, authTokens, twoFactorAuth, sessions, attempts, now, cleanupPc,
                   nreq, issued, minted, consumed, fails>>
    /\ UNCHANGED <<wins, mailVars>>

\* lines 338-340: the account is activated.
VerifyEmailActivate(p) ==
    /\ At(p, "verifyEmail", "activate")
    /\ users' = [users EXCEPT ![req[p].authUser].isActive = TRUE]
    /\ Set(p, [pc |-> "markUsed"])
    /\ UNCHANGED <<authTokens, twoFactorAuth, sessions, attempts, now, cleanupPc, nreq,
                   issued, minted, consumed, fails>>
    /\ UNCHANGED <<wins, mailVars>>

\* lines 343-348: markTokenAsUsed(token), success.
VerifyEmailMarkUsed(p) ==
    /\ At(p, "verifyEmail", "markUsed")
    /\ authTokens' = markTokenAsUsed(authTokens, req[p].token)
    /\ consumed' = consumed \cup {req[p].token}
    /\ Finish(p, "EmailVerified", TRUE)
    /\ UNCHANGED <<users, twoFactorAuth, sessions, attempts, now, cleanupPc, nreq,
                   issued, minted, fails>>
    /\ wins' = Append(wins, req[p].token)
    /\ UNCHANGED mailVars

\* --------------------------------------------------- requestPasswordReset
\* requestPasswordReset telling the caller that the email is unknown.
ResetResponseRevealing(u) ==
    IF u = 0 THEN [result |-> "UserNotFound", success |-> FALSE]
    ELSE [result |-> "ResetRequested", success |-> TRUE]

\* lines 366-370 and 383-386: the object returned for an unknown email and the one
\* returned for a known email: success true and the same message, nothing else.
ResetResponse(u) == [result |-> "ResetRequested", success |-> TRUE]

\* lines 361-386: the user row arrives; for a known email a password_reset token is
\* issued (the insert of the fresh row is taken with this step).  The result is the
\* same in both cases and carries no token.
RequestPasswordReset(p, email) ==
    /\ CanStart(p)
    /\ nreq' = nreq + 1
    /\ LET u == UserByEmail(email)
           start == Upd(Idle, ResetResponse(u) @@
                              [op |-> "requestPasswordReset", email |-> email,
                               pc |-> "done", user |-> u])
       IN  /\ req' = [req EXCEPT ![p] = start]
           /\ IF u = 0
              THEN UNCHANGED <<authTokens, issued>>
              ELSE /\ issued' = issued + 1
                   /\ authTokens' = generateAuthToken(authTokens, issued + 1, u,
                                        "password_reset", passwordReset, now)
    /\ UNCHANGED <<users, twoFactorAuth, sessions, attempts, now, cleanupPc, minted,
                   consumed, fails>>
    /\ UNCHANGED <<wins, mailVars>>

\* ---------------------------------------------------------- resetPassword
\* lines 399-415: validatePassword, then verifyAuthToken(token, 'password_reset')
\* resolves; bcrypt.hash touches no shared state and is taken with this step.
ResetPasswordVerify(p, token, newPassword) ==
    /\ CanStart(p)
    /\ nreq' = nreq + 1
    /\ LET authToken == verifyAuthToken(authTokens, token, "password_reset", now)
           start == Upd(Idle, [op |-> "resetPassword", token |-> token,
                               password |-> newPassword])
       IN  IF ~validatePassword(newPassword)
           THEN req' = [req EXCEPT ![p] =
                           Upd(start, [pc |-> "done", result |-> "WeakPassword"])]
           ELSE IF authToken = NoRow
                THEN req' = [req EXCEPT ![p] =
                                Upd(start, Seen(token, now) @@
                                    [pc |-> "done", result |-> "InvalidOrExpiredToken"])]
                ELSE req' = [req EXCEPT ![p] =
                                Upd(start, Seen(token, now) @@
                                    [pc |-> "updatePassword", authUser |-> authToken.userId,
                                     sessBefore |-> sessions])]
    /\ UNCHANGED <<users, authTokens, twoFactorAuth, sessions, attempts, now, cleanupPc,
                   issued, minted, consumed, fails>>
    /\ UNCHANGED <<wins, mailVars>>

\* resetPassword deleting the sessions first, with the hash still to be written.
ResetPasswordInvalidateFirst(p) ==
    /\ At(p, "resetPassword", "updatePassword")
    /\ sessions' = invalidateUserSessions(sessions, req[p].authUser)
    /\ Set(p, [pc |-> "markUsed"])
    /\ UNCHANGED <<users, authTokens, twoFactorAuth, attempts, now, cleanupPc, nreq,
                   issued, minted, consumed, fails>>
    /\ UNCHANGED <<wins, mailVars>>

\* lines 418-420: the password hash of the token's user is replaced.
ResetPasswordUpdate(p) ==
    /\ At(p, "resetPassword", "updatePassword")
    /\ users' = [users EXCEPT ![req[p].authUser].password = Hash(req[p].password)]
    /\ Set(p, [pc |-> "markUsed"])
    /\ UNCHANGED <<authTokens, twoFactorAuth, sessions, attempts, now, cleanupPc, nreq,
                   issued, minted, consumed, fails>>
    /\ UNCHANGED <<wins, mailVars>>

\* line 423: markTokenAsUsed(token).
ResetPasswordMarkUsed(p) ==
    /\ At(p, "resetPassword", "markUsed")
    /\ authTokens' = markTokenAsUsed(authTokens, req[p].token)
    /\ consumed' = consumed \cup {req[p].token}
    /\ Set(p, [pc |-> "invalidate"])
    /\ UNCHANGED <<users, twoFactorAuth, sessions, attempts, now, cleanupPc, nreq,
                   issued, minted, fails>>
    /\ UNCHANGED <<wins, mailVars>>

\* lines 426-431: invalidateUserSessions(authToken.userId), success.
ResetPasswordInvalidate(p) ==
    /\ At(p, "resetPassword", "invalidate")
    /\ sessions' = invalidateUserSessions(sessions, req[p].authUser)
    /\ Finish(p, "PasswordReset", TRUE)
    /\ UNCHANGED <<users, authTokens, twoFactorAuth, attempts, now, cleanupPc, nreq,
                   issued, minted, consumed, fails>>
    /\ wins' = Append(wins, req[p].token)
    /\ UNCHANGED mailVars

\* ---------------------------------------------------------------- cleanup
\* setupCleanupTasks, lines 666-670: the first delete of the interval callback removes
\* the rows with isUsed = true (oneDayAgo is computed and not used).
\* line 665: oneDayAgo, the age beyond which the interval callback means to drop
\* expired rows (24 hours in the code).
retention == 1

CleanupTokens ==
    /\ NoneReturning
    /\ cleanupPc = "idle"
    /\ authTokens' = {r \in authTokens : ~r.isUsed}
    /\ cleanupPc' = "sessions"
    /\ UNCHANGED <<users, twoFactorAuth, sessions, attempts, now, req, nreq, issued,
                   minted, consumed, fails>>
    /\ UNCHANGED <<wins, mailVars>>

\* lines 672-674: the second delete removes the sessions with expiresAt > now.
CleanupSessions ==
    /\ NoneReturning
    /\ cleanupPc = "sessions"
    /\ sessions' = {x \in sessions : ~(x.expiresAt > now)}
    /\ cleanupPc' = "idle"
    /\ UNCHANGED <<users, authTokens, twoFactorAuth, attempts, now, req, nreq, issued,
                   minted, consumed, fails>>
    /\ UNCHANGED <<wins, mailVars>>

\* The clock advances.
Tick ==
    /\ NoneReturning
    /\ now < MaxTime
    /\ now' = now + 1
    /\ UNCHANGED <<users, authTokens, twoFactorAuth, sessions, attempts, req, cleanupPc,
                   nreq, issued, minted, consumed, fails>>
    /\ UNCHANGED <<wins, mailVars>>

\* ------------------------------------------------------------------- Init
\* Each EmailService that is constructed starts its own queue processor
\* (startQueueProcessor in the constructor) over the one email_queue table;
\* isProcessing belongs to the instance.
Instances == {"e1", "e2"}

\* Times of the mail queue are kept as the time elapsed since they were taken, which
\* is all the code looks at (Date.now() - lastAttempt >= delay): Never for a null
\* timestamp, otherwise the number of ticks since, counted up to delay + 1.
Never == -1

\* The email a processor holds: the row as findMany returned it.
NoEmail == [id |-> 0, attempts |-> 0, lastAttempt |-> Never]

\* isProcessing is false, no processEmailQueue is running.  waited is history: the
\* time since lastAttempt that the retry pass found when it decided to process email.
IdleProc == [isProcessing |-> FALSE, pc |-> "idle", pass |-> "none", batch |-> <<>>,
             email |-> NoEmail, waited |-> Never]

\* The store as earlier requests left it at the time the system is constructed:
\* alice is active and has enabled two-factor authentication, bob is active without
\* it, carol has registered and holds an unused email_verification token; alice has
\* one session.  The rate-limit map of a fresh instance is empty; so is the email
\* queue, and no processEmailQueue is running.
SeedUsers ==
    << [username |-> "alice", email |-> "alice@x.com", password |-> Hash("Str0ng!Pass"), isActive |-> TRUE],
       [username |-> "bob", email |-> "bob@x.com", password |-> Hash("Str0ng!Pass"), isActive |-> TRUE],
       [username |-> "carol", email |-> "carol@x.com", password |-> Hash("Str0ng!Pass"), isActive |-> FALSE] >>

Init ==
    /\ users = SeedUsers
    /\ authTokens = generateAuthToken({}, 1, 3, "email_verification", emailVerification, 0)
    /\ twoFactorAuth = << [userId |-> 1, secret |-> "SECRET1", isEnabled |-> TRUE, lastUsed |-> -1] >>
    /\ sessions = createSession({}, 1, 1, 0)
    /\ attempts = [e \in Emails |-> NoEntry]
    /\ now = 0
    /\ req = [p \in Procs |-> Idle]
    /\ cleanupPc = "idle"
    /\ nreq = 0
    /\ issued = 1
    /\ minted = 1
    /\ consumed = {}
    /\ fails = [e \in Emails |-> <<>>]
    /\ wins = <<>>
    /\ emailQueue = <<>>
    /\ proc = [i \in Instances |-> IdleProc]
    /\ storeFailures = 0

\* --------------------------------------------------------------- register
\* users.username and users.email are unique (schema, users table): an insert of a
\* row that repeats either is refused by the store.
UniqueViolation(rows, username, email) ==
    \E i \in DOMAIN rows : rows[i].username = username \/ rows[i].email = email

\* lines 99-124: the two validations, then the row with this email arrives.
RegisterFindEmail(p, username, email, password) ==
    /\ CanStart(p)
    /\ nreq' = nreq + 1
    /\ LET start == Upd(Idle, [op |-> "register", username |-> username,
                               email |-> email, password |-> password])
       IN  IF ~validatePassword(password)
           THEN req' = [req EXCEPT ![p] =
                           Upd(start, [pc |-> "done", result |-> "WeakPassword"])]
           ELSE IF ~validateEmail(email)
           THEN req' = [req EXCEPT ![p] =
                           Upd(start, [pc |-> "done", result |-> "InvalidEmail"])]
           ELSE IF UserByEmail(email) # 0
           THEN req' = [req EXCEPT ![p] =
                           Upd(start, [pc |-> "done", result |-> "EmailTaken"])]
           ELSE req' = [req EXCEPT ![p] = Upd(start, [pc |-> "findUsername"])]
    /\ UNCHANGED <<users, authTokens, twoFactorAuth, sessions, attempts, now, cleanupPc,
                   issued, minted, consumed, fails, wins>>
    /\ UNCHANGED mailVars

\* lines 126-138: the row with this username arrives; bcrypt.hash touches no shared
\* state and is taken with this step.
RegisterFindUsername(p) ==
    /\ At(p, "register", "findUsername")
    /\ IF UserByUsername(req[p].username) # 0
       THEN Finish(p, "UsernameTaken", FALSE)
       ELSE Set(p, [pc |-> "insert"])
    /\ UNCHANGED <<users, authTokens, twoFactorAuth, sessions, attempts, now, cleanupPc,
                   nreq, issued, minted, consumed, fails, wins>>
    /\ UNCHANGED mailVars

\* lines 140-192: the insert executes.  A refused insert throws and the catch returns
\* the registration error.  Otherwise the JWT is made, and with verification required
\* an email_verification token is issued (the insert of the fresh row is taken with
\* this step); the result carries the JWT and the verification token.
RegisterInsert(p) ==
    /\ At(p, "register", "insert")
    /\ IF UniqueViolation(users, req[p].username, req[p].email)
       THEN /\ Finish(p, "RegistrationError", FALSE)
            /\ UNCHANGED <<users, authTokens, issued>>
       ELSE /\ users' = Append(users, [username |-> req[p].username,
                                       email |-> req[p].email,
                                       password |-> Hash(req[p].password),
                                       isActive |-> ~requireEmailVerification])
            /\ IF requireEmailVerification
               THEN /\ issued' = issued + 1
                    /\ authTokens' = generateAuthToken(authTokens, issued + 1,
                                         Len(users) + 1, "email_verification",
                                         emailVerification, now)
                    /\ Set(p, [pc |-> "done", result |-> "Registered", success |-> TRUE,
                               user |-> Len(users) + 1, bearer |-> TRUE,
                               outToken |-> issued + 1])
               ELSE /\ UNCHANGED <<authTokens, issued>>
                    /\ Set(p, [pc |-> "done", result |-> "Registered", success |-> TRUE,
                               user |-> Len(users) + 1, bearer |-> TRUE])
    /\ UNCHANGED <<twoFactorAuth, sessions, attempts, now, cleanupPc, nreq, minted,
                   consumed, fails, wins>>
    /\ UNCHANGED mailVars

\* ------------------------------------------- setupTwoFactor, enableTwoFactor
\* speakeasy.generateSecret returns a fresh random secret for every call: the n-th
\* row of the table gets the n-th name.
SecretNames ==
    <<"SECRET1", "SECRET2", "SECRET3", "SECRET4", "SECRET5", "SECRET6", "SECRET7",
      "SECRET8", "SECRET9">>

GenerateSecret(n) == SecretNames[n]

\* lines 480-485: the values of the row setupTwoFactor inserts.
NewCredential(userId, secret) ==
    [userId |-> userId, secret |-> secret, isEnabled |-> FALSE, lastUsed |-> -1]

\* setupTwoFactor that does not look for an enabled row.
SetupTwoFactorUnchecked(p, userId) ==
    /\ CanStart(p)
    /\ nreq' = nreq + 1
    /\ req' = [req EXCEPT ![p] =
                  Upd(Idle, [op |-> "setupTwoFactor", user |-> userId, pc |-> "insert"])]
    /\ UNCHANGED <<users, authTokens, twoFactorAuth, sessions, attempts, now, cleanupPc,
                   issued, minted, consumed, fails>>
    /\ UNCHANGED <<wins, mailVars>>

\* lines 449-463: the enabled row of the user arrives, or none.
SetupTwoFactorFind(p, userId) ==
    /\ CanStart(p)
    /\ nreq' = nreq + 1
    /\ LET start == Upd(Idle, [op |-> "setupTwoFactor", user |-> userId])
       IN  IF TwoFactorRows(userId, TRUE) # {}
           THEN req' = [req EXCEPT ![p] =
                           Upd(start, [pc |-> "done", result |-> "TwoFactorAlreadyEnabled"])]
           ELSE req' = [req EXCEPT ![p] = Upd(start, [pc |-> "insert"])]
    /\ UNCHANGED <<users, authTokens, twoFactorAuth, sessions, attempts, now, cleanupPc,
                   issued, minted, consumed, fails>>
    /\ UNCHANGED <<wins, mailVars>>

\* lines 465-493: secret, backup codes and QR code are made, the row is inserted with
\* isEnabled false and the secret returned.
SetupTwoFactorInsert(p) ==
    /\ At(p, "setupTwoFactor", "insert")
    /\ Len(twoFactorAuth) < Len(SecretNames)
    /\ LET secret == GenerateSecret(Len(twoFactorAuth) + 1)
       IN  /\ twoFactorAuth' = Append(twoFactorAuth, NewCredential(req[p].user, secret))
           /\ Set(p, [pc |-> "done", result |-> "TwoFactorSetupInitiated",
                      success |-> TRUE, tf |-> Len(twoFactorAuth) + 1, secret |-> secret])
    /\ UNCHANGED <<users, authTokens, sessions, attempts, now, cleanupPc, nreq,
                   issued, minted, consumed, fails>>
    /\ UNCHANGED <<wins, mailVars>>

\* lines 504-533: a row of the user with isEnabled false arrives (the query has no
\* ORDER BY: any of them), or none; the code is verified against the secret of that row.
EnableTwoFactorFind(p, userId, verificationCode) ==
    /\ CanStart(p)
    /\ nreq' = nreq + 1
    /\ LET start == Upd(Idle, [op |-> "enableTwoFactor", user |-> userId,
                               code |-> verificationCode])
       IN  IF TwoFactorRows(userId, FALSE) = {}
           THEN req' = [req EXCEPT ![p] =
                           Upd(start, [pc |-> "done", result |-> "TwoFactorSetupNotFound"])]
           ELSE \E twoFA \in TwoFactorRows(userId, FALSE) :
                   LET found == Upd(start, [tf |-> twoFA,
                                            secret |-> twoFactorAuth[twoFA].secret])
                   IN  IF ~TotpVerify(twoFactorAuth[twoFA].secret, verificationCode)
                       THEN req' = [req EXCEPT ![p] =
                                       Upd(found, [pc |-> "done",
                                                   result |-> "InvalidVerificationCode"])]
                       ELSE req' = [req EXCEPT ![p] = Upd(found, [pc |-> "enable"])]
    /\ UNCHANGED <<users, authTokens, twoFactorAuth, sessions, attempts, now, cleanupPc,
                   issued, minted, consumed, fails>>
    /\ UNCHANGED <<wins, mailVars>>

\* lines 535-543: isEnabled of the row found is set, by its id.
EnableTwoFactorUpdate(p) ==
    /\ At(p, "enableTwoFactor", "enable")
    /\ twoFactorAuth' = [twoFactorAuth EXCEPT ![req[p].tf].isEnabled = TRUE]
    /\ Finish(p, "TwoFactorEnabled", TRUE)
    /\ UNCHANGED <<users, authTokens, sessions, attempts, now, cleanupPc, nreq,
                   issued, minted, consumed, fails>>
    /\ UNCHANGED <<wins, mailVars>>

\* The store later in its life: bob too has enabled two-factor authentication, and
\* carol has called setupTwoFactor once and not yet enableTwoFactor.
InitTwoFactor ==
    /\ users = SeedUsers
    /\ authTokens = generateAuthToken({}, 1, 3, "email_verification", emailVerification, 0)
    /\ twoFactorAuth =
          << [userId |-> 1, secret |-> "SECRET1", isEnabled |-> TRUE, lastUsed |-> -1],
             [userId |-> 2, secret |-> "SECRET2", isEnabled |-> TRUE, lastUsed |-> -1],
             [userId |-> 3, secret |-> "SECRET3", isEnabled |-> FALSE, lastUsed |-> -1] >>
    /\ sessions = createSession({}, 1, 1, 0)
    /\ attempts = [e \in Emails |-> NoEntry]
    /\ now = 0
    /\ req = [p \in Procs |-> Idle]
    /\ cleanupPc = "idle"
    /\ nreq = 0
    /\ issued = 1
    /\ minted = 1
    /\ consumed = {}
    /\ fails = [e \in Emails |-> <<>>]
    /\ wins = <<>>
    /\ emailQueue = <<>>
    /\ proc = [i \in Instances |-> IdleProc]
    /\ storeFailures = 0

\* ------------------------------------------------------------------- Next
\* The credentials a login presents: a password alone, or alice's password with a
\* challenge token issued so far and a code (the right one or a wrong one).
LoginInputs ==
    {<<e, pw, 0, "none">> :
        e \in {"alice@x.com", "bob@x.com", "carol@x.com", "nobody@x.com"},
        pw \in {"Str0ng!Pass", "N3w!Passw"}}
    \cup {<<"alice@x.com", "Str0ng!Pass", t, c>> :
             t \in Presentable \ {0}, c \in {"SECRET1", "000000"}}

\* A caller starts a request.
Start(p) ==
    \/ \E c \in LoginInputs : LoginCall(p, c[1], c[2], c[3], c[4])
    \/ \E token \in Presentable : VerifyEmailVerify(p, token)
    \/ \E email \in {"alice@x.com", "bob@x.com", "nobody@x.com"} :
          RequestPasswordReset(p, email)
    \/ \E token \in Presentable, pw \in {"N3w!Passw", "weakpass"} :
          ResetPasswordVerify(p, token, pw)

\* The store call a request waits for executes and the request runs on.
Step(p) ==
    \/ LoginFindUser(p)
    \/ LoginCompare(p)
    \/ LoginFindTwoFactor(p)
    \/ LoginVerifyTwoFactor(p)
    \/ LoginMarkUsed(p)
    \/ LoginUpdateLastUsed(p)
    \/ LoginCreateSession(p)
    \/ VerifyEmailActivate(p)
    \/ VerifyEmailMarkUsed(p)
    \/ ResetPasswordUpdate(p)
    \/ ResetPasswordMarkUsed(p)
    \/ ResetPasswordInvalidate(p)
    \/ Return(p)

\* One request at a time, while the clock advances.  (The interval callback,
\* CleanupTokens and CleanupSessions, is not scheduled in the specifications below.)
Next ==
    \/ Start("p1")
    \/ Step("p1")
    \/ Tick

Spec == Init /\ [][Next]_vars

\* Two requests at a time; the clock stands still.
NextRace ==
    \E p \in Procs : Start(p) \/ Step(p)

SpecRace == Init /\ [][NextRace]_vars

\* Two registrations at a time.
RegisterInputs ==
    {"dave", "dan", "alice"} \X {"dave@x.com", "alice@x.com", "dave.x.com"}
        \X {"Str0ng!Pass", "weakpass"}

NextRegister ==
    \E p \in Procs :
        \/ \E c \in RegisterInputs : RegisterFindEmail(p, c[1], c[2], c[3])
        \/ RegisterFindUsername(p)
        \/ RegisterInsert(p)
        \/ Return(p)

SpecRegister == Init /\ [][NextRegister]_vars

\* The interval callback of setupCleanupTasks runs between the requests, one request
\* at a time, while the clock advances.  The store holds in addition what a longer
\* life has left in it: a password_reset token of bob that was never used and expired
\* more than the retention period ago, and a session of bob that has expired.
InitCleanup ==
    /\ users = SeedUsers
    /\ authTokens =
          generateAuthToken({}, 1, 3, "email_verification", emailVerification, 0)
          \cup {[token |-> 2, userId |-> 2, type |-> "password_reset",
                 expiresAt |-> 0 - retention - 1, isUsed |-> FALSE]}
    /\ twoFactorAuth = << [userId |-> 1, secret |-> "SECRET1", isEnabled |-> TRUE, lastUsed |-> -1] >>
    /\ sessions = createSession({}, 1, 1, 0)
                  \cup {[id |-> 2, userId |-> 2, expiresAt |-> -1]}
    /\ attempts = [e \in Emails |-> NoEntry]
    /\ now = 0
    /\ req = [p \in Procs |-> Idle]
    /\ cleanupPc = "idle"
    /\ nreq = 0
    /\ issued = 2
    /\ minted = 2
    /\ consumed = {}
    /\ fails = [e \in Emails |-> <<>>]
    /\ wins = <<>>
    /\ emailQueue = <<>>
    /\ proc = [i \in Instances |-> IdleProc]
    /\ storeFailures = 0

NextCleanup ==
    \/ Start("p1")
    \/ Step("p1")
    \/ Tick
    \/ CleanupTokens
    \/ CleanupSessions

SpecCleanup == InitCleanup /\ [][NextCleanup]_vars

\* Two-factor setup and login, one request at a time; the clock stands still.  The
\* user ids are bob's (enabled) and carol's (pending); a code is a secret made so far
\* or a wrong one; a login presents alice's or bob's password, alone or with a
\* challenge token issued so far and a code.
TwoFactorCodes == {GenerateSecret(n) : n \in DOMAIN twoFactorAuth} \cup {"000000"}

TwoFactorLoginInputs ==
    {<<e, "Str0ng!Pass", 0, "none">> : e \in {"alice@x.com", "bob@x.com"}}
    \cup {<<e, "Str0ng!Pass", t, GenerateSecret(UserByEmail(e))>> :
             e \in {"alice@x.com", "bob@x.com"}, t \in Presentable \ {0}}

NextTwoFactor ==
    \/ \E userId \in {2, 3} : SetupTwoFactorFind("p1", userId)
    \/ SetupTwoFactorInsert("p1")
    \/ \E userId \in {2, 3}, code \in TwoFactorCodes :
          EnableTwoFactorFind("p1", userId, code)
    \/ EnableTwoFactorUpdate("p1")
    \/ \E c \in TwoFactorLoginInputs : LoginCall("p1", c[1], c[2], c[3], c[4])
    \/ LoginFindUser("p1")
    \/ LoginCompare("p1")
    \/ LoginFindTwoFactor("p1")
    \/ LoginVerifyTwoFactor("p1")
    \/ LoginMarkUsed("p1")
    \/ LoginUpdateLastUsed("p1")
    \/ LoginCreateSession("p1")
    \/ Return("p1")

SpecTwoFactor == InitTwoFactor /\ [][NextTwoFactor]_vars

\* ------------------------------------------------------------- mail queue
\* server/auth/EmailService.ts.  config.retry.maxAttempts (line 73).
maxAttempts == 3

\* config.retry.delay (line 74: 5 min) in ticks, config.queue.batchSize (line 78: 10)
\* scaled down.
delay == 1
batchSize == 2
\* Number of rows enqueued in one behaviour.
MaxRows == 2
\* Number of email_queue store calls that throw in one behaviour.
MaxStoreFailures == 1

\* One tick passes for a time kept as described at Never.
Age(a) == IF a = Never \/ a > delay THEN a ELSE a + 1

\* findMany({where: status = s, limit: batchSize}) gives no order: any batchSize of the
\* matching rows (all of them when there are fewer), here listed by id.
Batches(status) ==
    LET m == {k \in DOMAIN emailQueue : emailQueue[k].status = status}
        n == IF Cardinality(m) < batchSize THEN Cardinality(m) ELSE batchSize
    IN  {ids \in SUBSET m : Cardinality(ids) = n}

Snapshots(ids) ==
    [j \in 1 .. Cardinality(ids) |->
        LET k == CHOOSE x \in ids : Cardinality({y \in ids : y < x}) = j - 1
        IN  [id |-> k, attempts |-> emailQueue[k].attempts,
             lastAttempt |-> emailQueue[k].lastAttempt]]

\* The retry pass with no check of the attempts.
EligibleAnyAttempts(email) ==
    email.lastAttempt = Never \/ email.lastAttempt >= delay

\* The retry pass with no check of the time since the last attempt.
EligibleAnyTime(email) == email.attempts < maxAttempts

\* lines 236-243: the two conditions of the retry pass; timeSinceLastAttempt is
\* Infinity for a null lastAttempt.
Eligible(email) ==
    /\ email.attempts < maxAttempts
    /\ (email.lastAttempt = Never \/ email.lastAttempt >= delay)

RECURSIVE SkipIneligible(_)
SkipIneligible(batch) ==
    IF batch = <<>> \/ Eligible(Head(batch)) THEN batch
    ELSE SkipIneligible(Tail(batch))

\* The for loops of processEmailQueue (lines 223-245) up to the next await: the pass
\* over the pending rows processes the next email of its batch and, when the batch is
\* done, asks for the failed rows; the retry pass processes the next eligible email
\* and, when there is none, ends (finally: isProcessing = false).
Continue(pass, rest) ==
    IF pass = "pending"
    THEN IF rest = <<>>
         THEN [isProcessing |-> TRUE, pc |-> "findFailed", pass |-> "failed",
               batch |-> <<>>, email |-> NoEmail, waited |-> Never]
         ELSE [isProcessing |-> TRUE, pc |-> "setSending", pass |-> "pending",
               batch |-> Tail(rest), email |-> Head(rest), waited |-> Never]
    ELSE LET r == SkipIneligible(rest)
         IN  IF r = <<>> THEN IdleProc
             ELSE [isProcessing |-> TRUE, pc |-> "setSending", pass |-> "failed",
                   batch |-> Tail(r), email |-> Head(r),
                   waited |-> IF Head(r).lastAttempt = Never THEN delay + 1
                              ELSE Head(r).lastAttempt]

\* A store call on email_queue resolves or throws.
StoreOutcomes == IF storeFailures < MaxStoreFailures THEN {TRUE, FALSE} ELSE {TRUE}

Store(ok) == storeFailures' = IF ok THEN storeFailures ELSE storeFailures + 1

\* queueEmail, lines 174-194: the insert of a pending row with attempts 0 (an insert
\* that throws returns false and leaves the table as it was).  The last
\* four fields are history: the number of transporter.sendMail calls made for the
\* row, the time since the last of them, whether two of them were ever closer
\* together than delay, and how many of them resolved (counted up to two).
QueueEmail(to, templateId) ==
    /\ Len(emailQueue) < MaxRows
    /\ emailQueue' = Append(emailQueue,
           [to |-> to, templateId |-> templateId, status |-> "pending", attempts |-> 0,
            lastAttempt |-> Never, calls |-> 0, sinceCall |-> Never, tooClose |-> FALSE,
            delivered |-> 0])
    /\ UNCHANGED <<proc, storeFailures>>
    /\ UNCHANGED authVars

\* sendTemplateEmail, lines 140-171, for a template that seedEmailTemplates has
\* stored: the rendered email is queued under the id of the template.
SendTemplateEmail(templateName, to) == QueueEmail(to, templateName)

\* lines 113-119 and 121-129.  Nothing in AuthenticationSystem.ts calls them: they
\* are called by whoever holds an EmailService.
SendVerificationEmail(to) == SendTemplateEmail("email_verification", to)

SendPasswordResetEmail(to) == SendTemplateEmail("password_reset", to)

\* startQueueProcessor, lines 204-214: the interval callback finds isProcessing false
\* and calls processEmailQueue, which sets it and asks for the pending rows.
Interval(i) ==
    /\ ~proc[i].isProcessing
    /\ proc' = [proc EXCEPT ![i] = [IdleProc EXCEPT !.isProcessing = TRUE,
                                                    !.pc = "findPending",
                                                    !.pass = "pending"]]
    /\ UNCHANGED <<emailQueue, storeFailures>>
    /\ UNCHANGED authVars

\* lines 216-225: the pending rows arrive.  A query that throws ends the run
\* (catch, finally).
FindPending(i) ==
    /\ proc[i].pc = "findPending"
    /\ \E ok \in StoreOutcomes :
          /\ Store(ok)
          /\ IF ok
             THEN \E ids \in Batches("pending") :
                     proc' = [proc EXCEPT ![i] = Continue("pending", Snapshots(ids))]
             ELSE proc' = [proc EXCEPT ![i] = IdleProc]
    /\ UNCHANGED emailQueue
    /\ UNCHANGED authVars

\* lines 227-245: the failed rows arrive.
FindFailed(i) ==
    /\ proc[i].pc = "findFailed"
    /\ \E ok \in StoreOutcomes :
          /\ Store(ok)
          /\ IF ok
             THEN \E ids \in Batches("failed") :
                     proc' = [proc EXCEPT ![i] = Continue("failed", Snapshots(ids))]
             ELSE proc' = [proc EXCEPT ![i] = IdleProc]
    /\ UNCHANGED emailQueue
    /\ UNCHANGED authVars

\* processEmail, lines 258-262: the update to status sending, by id alone.  When it
\* throws, the catch goes on to the update to failed.
SetSending(i) ==
    /\ proc[i].pc = "setSending"
    /\ \E ok \in StoreOutcomes :
          /\ Store(ok)
          /\ emailQueue' = IF ok
                           THEN [emailQueue EXCEPT ![proc[i].email.id].status = "sending"]
                           ELSE emailQueue
          /\ proc' = [proc EXCEPT ![i].pc = IF ok THEN "sendMail" ELSE "setFailed"]
    /\ UNCHANGED authVars

\* lines 264-271: transporter.sendMail resolves or rejects.
SendMail(i) ==
    /\ proc[i].pc = "sendMail"
    /\ \E resolved \in BOOLEAN :
          /\ proc' = [proc EXCEPT ![i].pc = IF resolved THEN "setSent" ELSE "setFailed"]
          /\ emailQueue' = [emailQueue EXCEPT ![proc[i].email.id] =
                 [@ EXCEPT !.calls = IF @ > maxAttempts THEN @ ELSE @ + 1,
                           !.sinceCall = 0,
                           !.tooClose = @ \/ (emailQueue[proc[i].email.id].sinceCall # Never
                                              /\ emailQueue[proc[i].email.id].sinceCall < delay),
                           !.delivered = IF resolved /\ @ < 2 THEN @ + 1 ELSE @]]
    /\ UNCHANGED storeFailures
    /\ UNCHANGED authVars

\* lines 273-281: the update to status sent; processEmail returns and the loop goes
\* on.  When the update throws, the catch goes on to the update to failed.
SetSent(i) ==
    /\ proc[i].pc = "setSent"
    /\ \E ok \in StoreOutcomes :
          /\ Store(ok)
          /\ IF ok
             THEN /\ emailQueue' = [emailQueue EXCEPT ![proc[i].email.id].status = "sent"]
                  /\ proc' = [proc EXCEPT ![i] = Continue(proc[i].pass, proc[i].batch)]
             ELSE /\ UNCHANGED emailQueue
                  /\ proc' = [proc EXCEPT ![i].pc = "setFailed"]
    /\ UNCHANGED authVars

\* lines 282-293: the update of the catch: status failed, attempts one more than the
\* email held, lastAttempt = new Date().  When it throws, processEmail throws and
\* processEmailQueue ends (catch, finally).
SetFailed(i) ==
    /\ proc[i].pc = "setFailed"
    /\ \E ok \in StoreOutcomes :
          /\ Store(ok)
          /\ IF ok
             THEN /\ emailQueue' = [emailQueue EXCEPT ![proc[i].email.id] =
                         [@ EXCEPT !.status = "failed",
                                   !.attempts = proc[i].email.attempts + 1,
                                   !.lastAttempt = 0]]
                  /\ proc' = [proc EXCEPT ![i] = Continue(proc[i].pass, proc[i].batch)]
             ELSE /\ UNCHANGED emailQueue
                  /\ proc' = [proc EXCEPT ![i] = IdleProc]
    /\ UNCHANGED authVars

\* Time passes: every time kept is one tick older.
MailTick ==
    /\ emailQueue' = [k \in DOMAIN emailQueue |->
                         [emailQueue[k] EXCEPT !.lastAttempt = Age(@), !.sinceCall = Age(@)]]
    /\ proc' = [i \in Instances |->
                   [proc[i] EXCEPT
                       !.email = [@ EXCEPT !.lastAttempt = Age(@)],
                       !.batch = [j \in DOMAIN @ |-> [@[j] EXCEPT !.lastAttempt = Age(@)]]]]
    /\ UNCHANGED storeFailures
    /\ UNCHANGED authVars

\* One run of processEmailQueue of an instance, step by step.
Processor(i) ==
    \/ Interval(i)
    \/ FindPending(i)
    \/ SetSending(i)
    \/ SendMail(i)
    \/ SetSent(i)
    \/ SetFailed(i)
    \/ FindFailed(i)

\* One EmailService; verification emails are queued.
NextMail ==
    \/ SendVerificationEmail("carol@x.com")
    \/ Processor("e1")
    \/ MailTick

SpecMail == Init /\ [][NextMail]_vars

\* Two EmailService instances over the same table; the clock stands still.
NextMailRace ==
    \/ SendVerificationEmail("carol@x.com")
    \/ SendPasswordResetEmail("alice@x.com")
    \/ \E i \in Instances : Processor(i)

SpecMailRace == Init /\ [][NextMailRace]_vars

\* One EmailService whose interval keeps firing, whose awaited calls all return, and
\* time that keeps passing.
SpecMailLive ==
    /\ Init
    /\ [][NextMail]_vars
    /\ WF_vars(Processor("e1"))
    /\ WF_vars(MailTick)

\* ------------------------------------------------------- template rendering
\* A template is a sequence of pieces: an opening brace, a closing brace, a maximal
\* run of word characters (\w+), or a character that is neither.  A JavaScript
\* value is kept as whether it is undefined and what String() makes of it.
MaxLen == 5

Words == {"name", "constructor"}

Pieces == {"{", "}", "<"} \cup Words

Undefined == [defined |-> FALSE, string |-> <<"undefined">>]

Str(s) == [defined |-> TRUE, string |-> s]

\* Object.prototype, which every object literal passed as data inherits from:
\* data.constructor is the function Object.
ObjectPrototype ==
    [constructor |-> Str(<<"function Object() { [native code] }">>)]

\* data[key]: the own property, else the inherited one, else undefined.
Get(data, key) ==
    IF key \in DOMAIN data THEN data[key]
    ELSE IF key \in DOMAIN ObjectPrototype THEN ObjectPrototype[key]
    ELSE Undefined

\* The pieces at i are {{word}}: a match of /\{\{(\w+)\}\}/.
Match(template, i) ==
    /\ i + 4 <= Len(template)
    /\ template[i] = "{" /\ template[i + 1] = "{"
    /\ template[i + 2] \in Words
    /\ template[i + 3] = "}" /\ template[i + 4] = "}"

\* Get that sees own properties only.
GetOwn(data, key) == IF key \in DOMAIN data THEN data[key] ELSE Undefined

\* lines 197-201, processTemplate: template.replace with the global pattern goes
\* through the matches from left to right, without overlap and without looking at
\* what it has put in; the callback returns String(data[key]) when data[key] is not
\* undefined, the match itself otherwise.
RECURSIVE Replace(_, _, _)
Replace(template, data, i) ==
    IF i > Len(template) THEN <<>>
    ELSE IF Match(template, i)
         THEN (IF Get(data, template[i + 2]).defined
               THEN Get(data, template[i + 2]).string
               ELSE SubSeq(template, i, i + 4))
              \o Replace(template, data, i + 5)
         ELSE <<template[i]>> \o Replace(template, data, i + 1)

processTemplate(template, data) == Replace(template, data, 1)

\* Templates as the pieces of a string: two runs of word characters never touch.
RECURSIVE SeqsUpTo(_, _)
SeqsUpTo(S, n) ==
    IF n = 0 THEN {<<>>}
    ELSE SeqsUpTo(S, n - 1)
         \cup {Append(s, x) : s \in {t \in SeqsUpTo(S, n - 1) : Len(t) = n - 1}, x \in S}

TemplateStrings ==
    {t \in SeqsUpTo(Pieces, MaxLen) :
        \A i \in 1 .. Len(t) - 1 : ~(t[i] \in Words /\ t[i + 1] \in Words)}

\* The data of a call: no key, or the key name with the empty string, a string with
\* markup, a string that reads as a placeholder, or the value undefined.
DataObjects ==
    {<<>>} \cup
    {[name |-> v] : v \in {Str(<<>>), Str(<<"<">>),
                           Str(<<"{", "{", "name", "}", "}">>), Undefined}}

\* sendTemplateEmail, lines 140-171, for a stored template with this subject: the
\* subject is rendered and the email queued.  template and templateData are kept in
\* the row (templateData is a column; template is history).
SendTemplateEmailWith(subject, to, data) ==
    /\ emailQueue = <<>>
    /\ emailQueue' = <<[to |-> to, template |-> subject, templateData |-> data,
                        subject |-> processTemplate(subject, data),
                        status |-> "pending", attempts |-> 0]>>
    /\ UNCHANGED <<proc, storeFailures>>
    /\ UNCHANGED authVars

\* One call in a behaviour.
NextTemplate ==
    /\ emailQueue = <<>>
    /\ \E subject \in TemplateStrings, data \in DataObjects :
          SendTemplateEmailWith(subject, "carol@x.com", data)

SpecTemplate == Init /\ [][NextTemplate]_vars

\* ================================================================= claims
\* The token type each operation asks the ledger for.
KindOf(op) ==
    CASE op = "login" -> "2fa"
      [] op = "verifyEmail" -> "email_verification"
      [] op = "resetPassword" -> "password_reset"
      [] OTHER -> "none"

\* C1: once markTokenAsUsed has been called on a token value, every verifyAuthToken
\* that reads the ledger afterwards returns nothing for that value, so the request
\* presenting it (verifyEmail, resetPassword or a two-factor login) ends without success.
C1_ConsumedTokenNeverVerifies ==
    \A p \in Procs :
        req[p].seenUsed =>
            /\ req[p].authUser = 0
            /\ req[p].pc = "done"
            /\ ~req[p].success
            /\ req[p].result \in {"InvalidOrExpiredToken", "InvalidTwoFactorToken"}

\* A request presented a consumed token that was of the right type and not expired.
C1_Witness ==
    \E p \in Procs :
        /\ req[p].seenUsed
        /\ req[p].seenAge = "before"
        /\ req[p].seenType = KindOf(req[p].op)
        /\ req[p].pc = "done"

\* C2: of the requests that present the same single-use token, at most one returns
\* success, in every interleaving of their store reads and writes.
C2_AtMostOneSuccessPerToken ==
    \A i, j \in 1 .. Len(wins) : i # j => wins[i] # wins[j]

\* C3: verifyAuthToken returns nothing at any time now >= expiresAt, whether or not
\* the token has been used; a token is accepted only strictly before its expiresAt.
C3_ExpiredTokenNeverVerifies ==
    \A p \in Procs :
        /\ req[p].seenAge \in {"at", "after"} =>
              req[p].authUser = 0 /\ ~req[p].success /\ req[p].pc = "done"
        /\ req[p].authUser # 0 => req[p].seenAge = "before"

\* An unused token of the right type was presented at its expiresAt exactly.
C3_Witness ==
    \E p \in Procs :
        /\ req[p].seenAge = "at"
        /\ ~req[p].seenUsed
        /\ req[p].seenType = KindOf(req[p].op)
        /\ req[p].pc = "done"

\* C4: a token is accepted only by the operation of its own kind: login accepts
\* only a 2fa token, verifyEmail only an email_verification token, resetPassword
\* only a password_reset token.
C4_TokenOnlyForItsKind ==
    \A p \in Procs :
        /\ req[p].authUser # 0 => req[p].seenType = KindOf(req[p].op)
        /\ (req[p].seenType \in TokenTypes /\ req[p].seenType # KindOf(req[p].op)) =>
              req[p].pc = "done" /\ ~req[p].success

\* An unused, unexpired challenge token was presented to resetPassword.
C4_Witness ==
    \E p \in Procs :
        /\ req[p].op = "resetPassword"
        /\ req[p].seenType = "2fa"
        /\ req[p].seenAge = "before"
        /\ ~req[p].seenUsed
        /\ req[p].result = "InvalidOrExpiredToken"

\* C5: when the last loginAttempts recorded failures of an identifier lie inside the
\* window, the rate check returns false and the login is refused; when more than the
\* window width has passed since the last recorded failure, the rate check returns
\* true again, with no clearRateLimit in between.
C5_RateLimitWindow ==
    \A p \in Procs :
        req[p].op = "login" =>
            /\ req[p].hist = "full" =>
                  req[p].pc = "done" /\ req[p].result = "RateLimited"
            /\ req[p].hist \in {"stale", "empty"} => req[p].result # "RateLimited"

\* A login passed the rate check although loginAttempts failures had been recorded,
\* because the last of them was older than the window.
C5_Witness ==
    \E p \in Procs :
        /\ req[p].op = "login"
        /\ req[p].hist = "stale"
        /\ req[p].histLen >= loginAttempts
        /\ req[p].pc = "findUser"

\* The user a finished login was about, as the store holds it.
LoginUser(p) == UserByEmail(req[p].email)

\* C6: a login with the correct password of an active user who has an enabled
\* two-factor row, presenting no code or no challenge token, and not refused by the
\* rate limiter, returns "two-factor required" with a freshly issued, unused 2fa token
\* of that user, no bearer token, and leaves the session table as it was.
C6_ChallengeWithoutSession ==
    \A p \in Procs :
        ( /\ req[p].op = "login" /\ req[p].pc = "done"
          /\ req[p].result # "RateLimited"
          /\ LoginUser(p) # 0
          /\ users[LoginUser(p)].isActive
          /\ Compare(req[p].password, users[LoginUser(p)].password)
          /\ TwoFactorRows(LoginUser(p), TRUE) # {}
          /\ (req[p].code = "none" \/ req[p].token = 0) )
        =>
        ( /\ req[p].result = "RequiresTwoFactor"
          /\ ~req[p].success /\ ~req[p].bearer
          /\ req[p].outToken = issued
          /\ [token |-> req[p].outToken, userId |-> LoginUser(p), type |-> "2fa",
              expiresAt |-> now + twoFactor, isUsed |-> FALSE] \in authTokens
          /\ Cardinality({r \in authTokens : r.token = req[p].outToken}) = 1
          /\ sessions = req[p].sessBefore )

\* Such a login has returned.
C6_Witness ==
    \E p \in Procs :
        /\ req[p].op = "login" /\ req[p].pc = "done"
        /\ req[p].result = "RequiresTwoFactor"
        /\ req[p].sessBefore # {}

\* C7: a two-factor login with the correct password, a valid challenge token of the
\* user and a correct code succeeds and leaves the token used; a later login that
\* presents the same token fails, also with a correct password and a correct code.
C7_ChallengeTokenSingleUse ==
    \A p \in Procs :
        req[p].op = "login" =>
            /\ ( /\ req[p].pc = "done"
                 /\ req[p].seenType = "2fa" /\ req[p].seenAge = "before"
                 /\ ~req[p].seenUsed /\ req[p].seenOwner = req[p].user
                 /\ TotpVerify(req[p].secret, req[p].code) )
               => req[p].result = "LoginSuccessful"
            /\ (req[p].success /\ req[p].tf # 0) =>
                  \A r \in authTokens : r.token = req[p].token => r.isUsed
            /\ req[p].seenUsed =>
                  req[p].pc = "done" /\ req[p].result = "InvalidTwoFactorToken"

\* A login replayed, with the right password and a right code, the challenge token
\* an earlier login had succeeded with.
C7_Witness ==
    \E p \in Procs :
        /\ req[p].op = "login" /\ req[p].pc = "done"
        /\ req[p].seenUsed
        /\ req[p].seenType = "2fa" /\ req[p].seenOwner = req[p].user
        /\ TotpVerify(req[p].secret, req[p].code)
        /\ \E i \in 1 .. Len(wins) : wins[i] = req[p].token

\* C8: a login that fails at the two-factor step (challenge token or code refused)
\* has recorded one failed attempt for its email.
C8_TwoFactorFailureCounts ==
    \A p \in Procs :
        ( /\ req[p].op = "login" /\ req[p].pc = "done"
          /\ req[p].result \in {"InvalidTwoFactorToken", "InvalidTwoFactorCode"} )
        => attempts[req[p].email].count = req[p].cntBefore + 1

\* C9: when resetPassword has returned success for the user of the token, no session
\* row of that user is left, and the session rows of the other users are those that
\* were there when the request started.
C9_ResetInvalidatesSessions ==
    \A p \in Procs :
        ( req[p].op = "resetPassword" /\ req[p].pc = "done" /\ req[p].success )
        =>
        ( /\ {x \in sessions : x.userId = req[p].authUser} = {}
          /\ {x \in sessions : x.userId # req[p].authUser}
                = {x \in req[p].sessBefore : x.userId # req[p].authUser} )

\* A reset succeeded for a user who had a session while another user had one too.
C9_Witness ==
    \E p \in Procs :
        /\ req[p].op = "resetPassword" /\ req[p].pc = "done" /\ req[p].success
        /\ \E x \in req[p].sessBefore : x.userId = req[p].authUser
        /\ \E x \in req[p].sessBefore : x.userId # req[p].authUser

\* C10: a registration that passes the validations and finds its email or username
\* taken, before or when its row is inserted, fails with the conflict error.
C10_DuplicateIsConflict ==
    \A p \in Procs :
        ( /\ req[p].op = "register" /\ req[p].pc = "done"
          /\ validatePassword(req[p].password) /\ validateEmail(req[p].email)
          /\ ~req[p].success )
        => req[p].result \in {"EmailTaken", "UsernameTaken"}

\* The rows a finished register call is about.
VerificationTokens(userId) ==
    {r \in authTokens : r.userId = userId /\ r.type = "email_verification" /\ ~r.isUsed}

QueuedEmails(to, templateId, status) ==
    {k \in DOMAIN emailQueue :
        /\ emailQueue[k].to = to
        /\ emailQueue[k].templateId = templateId
        /\ emailQueue[k].status = status}

\* C11: when register has returned success with email verification required, the new
\* user is stored with isActive = false, exactly one unused email_verification token
\* of that user is in the ledger, and exactly one row of the email queue is pending
\* for that user's address with the email_verification template.
C11_RegisterQueuesVerification ==
    \A p \in Procs :
        ( /\ req[p].op = "register" /\ req[p].pc = "done" /\ req[p].success
          /\ requireEmailVerification )
        =>
        ( /\ ~users[req[p].user].isActive
          /\ Cardinality(VerificationTokens(req[p].user)) = 1
          /\ Cardinality(QueuedEmails(req[p].email, "email_verification", "pending")) = 1 )

\* C12: the result of a successful register carries a bearer token exactly when email
\* verification is not required; with verification required it carries none.
C12_BearerOnlyWithoutVerification ==
    \A p \in Procs :
        (req[p].op = "register" /\ req[p].pc = "done" /\ req[p].success)
        => (req[p].bearer <=> ~requireEmailVerification)

\* C13: requestPasswordReset returns the same result for an unknown email as for the
\* email of a user (success and the same message, no token, no bearer token), and
\* for an unknown email it issues no token and leaves every table and the rate-limit
\* map as they were.
C13_ResetRequestIndistinguishable ==
    [][\A p \in Procs :
          (req[p].pc = "idle" /\ req'[p].op = "requestPasswordReset")
          =>
          ( /\ req'[p].pc = "done"
            /\ req'[p].result = "ResetRequested" /\ req'[p].success
            /\ req'[p].outToken = 0 /\ ~req'[p].bearer
            /\ UserByEmail(req'[p].email) = 0 =>
                  /\ issued' = issued
                  /\ UNCHANGED <<users, authTokens, twoFactorAuth, sessions, attempts,
                                 emailQueue>> )]_vars

\* requestPasswordReset has returned for an email that no user has, while the ledger
\* holds tokens of other users.
C13_Witness ==
    \E p \in Procs :
        /\ req[p].op = "requestPasswordReset" /\ req[p].pc = "done"
        /\ UserByEmail(req[p].email) = 0
        /\ req[p].success
        /\ authTokens # {}

\* What requestPasswordReset does to the ledger for the email of a user: one fresh,
\* unused password_reset token of that user is added, and its value is in no field of
\* the result.
ResetTokenIssued(p) ==
    /\ issued' = issued + 1
    /\ authTokens' = authTokens \cup
           {[token |-> issued', userId |-> UserByEmail(req'[p].email),
             type |-> "password_reset", expiresAt |-> now + passwordReset,
             isUsed |-> FALSE]}
    /\ req'[p].outToken = 0

\* C14: for the email of a user, requestPasswordReset issues one password_reset token
\* of that user and enqueues one pending email with the password_reset template to
\* that address, and the token value is in no field of the result.
C14_ResetRequestQueuesEmail ==
    [][\A p \in Procs :
          ( /\ req[p].pc = "idle" /\ req'[p].op = "requestPasswordReset"
            /\ UserByEmail(req'[p].email) # 0 )
          =>
          ( /\ ResetTokenIssued(p)
            /\ Len(emailQueue') = Len(emailQueue) + 1
            /\ emailQueue'[Len(emailQueue')].to = req'[p].email
            /\ emailQueue'[Len(emailQueue')].templateId = "password_reset"
            /\ emailQueue'[Len(emailQueue')].status = "pending" )]_vars

\* C20: login checks the password before the account status.  A login for a stored,
\* inactive user with a wrong password, not refused by the rate limiter, returns the
\* generic invalid-credentials failure and has recorded one failed attempt for the
\* email; the not-activated failure is returned only when the password matched.
C20_CredentialsBeforeStatus ==
    \A p \in Procs :
        (req[p].op = "login" /\ req[p].pc = "done" /\ LoginUser(p) # 0) =>
            /\ ( /\ req[p].result # "RateLimited"
                 /\ ~users[LoginUser(p)].isActive
                 /\ ~Compare(req[p].password, users[LoginUser(p)].password) )
               => ( /\ req[p].result = "InvalidCredentials"
                    /\ attempts[req[p].email].count = req[p].cntBefore + 1 )
            /\ req[p].result = "NotActivated" =>
                  Compare(req[p].password, users[LoginUser(p)].password)

\* The instance is inside processEmail for the email it holds.
Processing(i) == proc[i].pc \in {"setSending", "sendMail", "setSent", "setFailed"}

\* C15: transporter.sendMail is called at most maxAttempts times for a row of the
\* email queue; a row whose attempts have reached maxAttempts has status failed and
\* no processEmail is started for it any more.
C15_AtMostMaxAttempts ==
    /\ \A k \in DOMAIN emailQueue :
          /\ emailQueue[k].calls <= maxAttempts
          /\ emailQueue[k].attempts <= maxAttempts
          /\ emailQueue[k].attempts = maxAttempts => emailQueue[k].status = "failed"
    /\ Processing("e1") => emailQueue[proc["e1"].email.id].attempts < maxAttempts

\* After maxAttempts calls a row is failed with attempts = maxAttempts; more than the
\* delay has passed since its last attempt and the retry pass is processing another
\* row.
C15_Witness ==
    \E k \in DOMAIN emailQueue :
        /\ emailQueue[k].calls = maxAttempts
        /\ emailQueue[k].attempts = maxAttempts
        /\ emailQueue[k].status = "failed"
        /\ emailQueue[k].lastAttempt > delay
        /\ proc["e1"].pass = "failed" /\ Processing("e1")
        /\ proc["e1"].email.id # k

\* C16 as stated: a failed row is attempted again only when its attempts are below
\* maxAttempts and the time since its last attempt exceeds the delay, and no two
\* transporter.sendMail calls for a row are closer together than the delay.
C16_RetryOnlyAfterBackoff ==
    /\ (proc["e1"].pass = "failed" /\ Processing("e1")) =>
          /\ proc["e1"].email.attempts < maxAttempts
          /\ proc["e1"].waited > delay
    /\ \A k \in DOMAIN emailQueue : ~emailQueue[k].tooClose

\* C16, amended: a failed row is attempted again only when its attempts are below
\* maxAttempts and the time since its last attempt is at least the delay, and no two
\* transporter.sendMail calls for a row are closer together than the delay.
C16_RetryNotBeforeBackoff ==
    /\ (proc["e1"].pass = "failed" /\ Processing("e1")) =>
          /\ proc["e1"].email.attempts < maxAttempts
          /\ proc["e1"].waited >= delay
    /\ \A k \in DOMAIN emailQueue : ~emailQueue[k].tooClose

\* A row is handed to the transport for the second time, by a retry decided when
\* exactly the delay had passed since its last attempt.
C16_Witness ==
    /\ proc["e1"].pass = "failed" /\ proc["e1"].pc \in {"setSent", "setFailed"}
    /\ proc["e1"].waited = delay
    /\ emailQueue[proc["e1"].email.id].calls = 2
    /\ emailQueue[proc["e1"].email.id].status = "sending"

\* C17: no two EmailService instances are between their update to status sending and
\* the return of transporter.sendMail for the same row at the same time.
C17_OneSenderPerRow ==
    \A i, j \in Instances :
        (i # j /\ proc[i].pc = "sendMail" /\ proc[j].pc = "sendMail")
        => proc[i].email.id # proc[j].email.id

\* A row has reached sent, or failed with attempts = maxAttempts.
Settled(k) ==
    \/ emailQueue[k].status = "sent"
    \/ emailQueue[k].status = "failed" /\ emailQueue[k].attempts = maxAttempts

\* C18: every row of the email queue eventually has status sent, or status failed
\* with attempts = maxAttempts, when the interval keeps firing and every awaited call
\* returns, whichever other rows are queued and whichever store call throws.
C18_EveryEmailSettles ==
    \A k \in 1 .. MaxRows :
        (Len(emailQueue) >= k) ~> (Len(emailQueue) >= k /\ Settled(k))

AllowedTransitions ==
    {<<"pending", "sending">>, <<"failed", "sending">>,
     <<"sending", "sent">>, <<"sending", "failed">>}

\* C19: the status of a row is pending, sending, sent or failed; it changes only from
\* pending to sending, from failed to sending, from sending to sent and from sending
\* to failed; a row that is sent stays sent and is not handed to the transport again.
C19_StatusTransitions ==
    [][\A k \in DOMAIN emailQueue :
          /\ emailQueue'[k].status \in {"pending", "sending", "sent", "failed"}
          /\ emailQueue'[k].status # emailQueue[k].status =>
                <<emailQueue[k].status, emailQueue'[k].status>> \in AllowedTransitions
          /\ emailQueue[k].status = "sent" =>
                /\ emailQueue'[k].status = "sent"
                /\ emailQueue'[k].calls = emailQueue[k].calls]_vars

\* The step of p ends a login with this result.
LoginEnds(p, result) ==
    /\ req[p].op = "login" /\ req[p].pc # "done"
    /\ req'[p].pc = "done" /\ req'[p].result = result

\* The step of p starts a login.
LoginStarts(p) == req[p].pc = "idle" /\ req'[p].op = "login"

\* C21: a login that ends with the not-activated failure has recorded no failed
\* attempt for its email and has created no session and no token: the step that
\* returns the failure changes no table and no counter, the result carries no token,
\* and the counter of the email is what the rate check of this login left.
C21_NotActivatedChangesNothing ==
    [][\A p \in Procs :
          LoginEnds(p, "NotActivated") =>
              /\ UNCHANGED <<attempts, sessions, authTokens, issued, minted, users,
                             twoFactorAuth>>
              /\ attempts'[req'[p].email].count = req'[p].cntBefore
              /\ ~req'[p].success /\ ~req'[p].bearer /\ req'[p].outToken = 0]_vars

\* A login for a stored, inactive user has ended with the not-activated failure.
C21_Witness ==
    \E p \in Procs :
        /\ req[p].op = "login" /\ req[p].pc = "done" /\ req[p].result = "NotActivated"
        /\ LoginUser(p) # 0 /\ ~users[LoginUser(p)].isActive

\* C22: a failed login for an unknown email and a failed login for a stored email with
\* a wrong password are indistinguishable: every login that the rate limiter did not
\* refuse and whose email is unknown or whose password does not match the stored hash
\* returns the same invalid-credentials failure without a token, and has raised the
\* counter of the email by one.
C22_UnknownAndWrongPasswordAlike ==
    \A p \in Procs :
        ( /\ req[p].op = "login" /\ req[p].pc = "done"
          /\ req[p].result # "RateLimited"
          /\ \/ LoginUser(p) = 0
             \/ ~Compare(req[p].password, users[LoginUser(p)].password) )
        => /\ req[p].result = "InvalidCredentials"
           /\ ~req[p].success /\ ~req[p].bearer /\ req[p].outToken = 0
           /\ attempts[req[p].email].count = req[p].cntBefore + 1

\* C23: while the rate check for an email is false (the last loginAttempts recorded
\* failures of the email lie inside the window), every login started for that email
\* ends at once with the rate-limited failure, whatever password, challenge token and
\* code it carries; the step creates no session, issues no token and leaves the
\* counter as it was.
C23_RateLimitedRefusesAll ==
    [][\A p \in Procs :
          (LoginStarts(p) /\ History(fails[req'[p].email], now) = "full") =>
              /\ req'[p].pc = "done" /\ req'[p].result = "RateLimited"
              /\ ~req'[p].success /\ ~req'[p].bearer /\ req'[p].outToken = 0
              /\ UNCHANGED <<attempts, fails, sessions, authTokens, issued, minted,
                             users, twoFactorAuth>>]_vars

\* A login of an active two-factor user with the correct password and the correct
\* code was refused by the rate limiter.
C23_Witness ==
    \E p \in Procs :
        /\ req[p].op = "login" /\ req[p].pc = "done" /\ req[p].result = "RateLimited"
        /\ LoginUser(p) # 0 /\ users[LoginUser(p)].isActive
        /\ Compare(req[p].password, users[LoginUser(p)].password)
        /\ req[p].token # 0
        /\ \E i \in TwoFactorRows(LoginUser(p), TRUE) :
               TotpVerify(twoFactorAuth[i].secret, req[p].code)
        /\ sessions = req[p].sessBefore
        /\ attempts[req[p].email].count = req[p].cntBefore

\* C24: a successful login has added exactly one session row, owned by the user who
\* logged in, to the rows that were there when the login started, and has removed the
\* rate-limit entry of the email, so the failures recorded before it no longer count:
\* the next rate check of the email passes.
C24_SuccessOneSessionCounterCleared ==
    \A p \in Procs :
        (req[p].op = "login" /\ req[p].pc = "done" /\ req[p].result = "LoginSuccessful")
        => /\ req[p].sessBefore \subseteq sessions
           /\ Cardinality(sessions \ req[p].sessBefore) = 1
           /\ \A s \in sessions \ req[p].sessBefore : s.userId = LoginUser(p)
           /\ attempts[req[p].email] = NoEntry
           /\ checkRateLimit(attempts, req[p].email, now).ok

\* A login succeeded for an email that had a failure on its counter when it started.
C24_Witness ==
    \E p \in Procs :
        /\ req[p].op = "login" /\ req[p].pc = "done"
        /\ req[p].result = "LoginSuccessful"
        /\ req[p].cntBefore >= 1
        /\ attempts[req[p].email] = NoEntry

\* The step of p ends a verifyEmail request.
VerifyEmailEnds(p) ==
    /\ req[p].pc # "done"
    /\ req'[p].op = "verifyEmail" /\ req'[p].pc = "done"

\* The token a verifyEmail request presented was stored, unused, unexpired and of
\* the email_verification kind when the request read the ledger.
PresentedValid(r) ==
    r.seenType = "email_verification" /\ r.seenAge = "before" /\ ~r.seenUsed

\* C25: verifyEmail with a valid email_verification token ends with success, the
\* token's user active and the token marked used; with a missing, expired, used or
\* wrong-kind token it ends at its first step with the generic invalid-or-expired
\* failure and has changed neither a user nor a token.
C25_VerifyEmailValidOrNothing ==
    [][\A p \in Procs :
          VerifyEmailEnds(p) =>
              IF PresentedValid(req'[p])
              THEN /\ req'[p].result = "EmailVerified" /\ req'[p].success
                   /\ users'[req'[p].seenOwner].isActive
                   /\ \A r \in authTokens' : r.token = req'[p].token => r.isUsed
              ELSE /\ req'[p].result = "InvalidOrExpiredToken" /\ ~req'[p].success
                   /\ req[p].pc = "idle"
                   /\ UNCHANGED <<users, authTokens, twoFactorAuth, sessions>>]_vars

\* verifyEmail activated a user who was inactive, with that user's token.
C25_Witness ==
    \E p \in Procs :
        /\ req[p].op = "verifyEmail" /\ req[p].pc = "done" /\ req[p].success
        /\ req[p].seenOwner = 3 /\ users[3].isActive

\* C26: at every reachable state each user has at most one two-factor row with
\* isEnabled true, after any sequence of setupTwoFactor and enableTwoFactor calls.
C26_AtMostOneEnabledCredential ==
    \A u \in DOMAIN users : Cardinality(TwoFactorRows(u, TRUE)) <= 1

\* The step of p starts a request of this operation.
Starts(p, op) == req[p].pc = "idle" /\ req'[p].op = op

\* The step of p ends a request of this operation.
Ends(p, op) == req[p].op = op /\ req[p].pc # "done" /\ req'[p].pc = "done"

\* C27: setupTwoFactor for a user who has an enabled credential fails at once with the
\* already-enabled error and stores nothing; for a user who has none it goes on and
\* ends with success, having appended one row of that user with isEnabled false and
\* the secret it returns; no step adds a row with isEnabled true.
C27_SetupStoresDisabledOrNothing ==
    [][\A p \in Procs :
          /\ Starts(p, "setupTwoFactor") =>
                /\ UNCHANGED twoFactorAuth
                /\ IF TwoFactorRows(req'[p].user, TRUE) # {}
                   THEN /\ req'[p].pc = "done" /\ ~req'[p].success
                        /\ req'[p].result = "TwoFactorAlreadyEnabled"
                   ELSE req'[p].pc = "insert"
          /\ (Ends(p, "setupTwoFactor") /\ req[p].pc = "insert") =>
                /\ req'[p].success /\ req'[p].result = "TwoFactorSetupInitiated"
                /\ Len(twoFactorAuth') = Len(twoFactorAuth) + 1
                /\ SubSeq(twoFactorAuth', 1, Len(twoFactorAuth)) = twoFactorAuth
                /\ twoFactorAuth'[Len(twoFactorAuth')].userId = req[p].user
                /\ twoFactorAuth'[Len(twoFactorAuth')].secret = req'[p].secret
          /\ \A i \in DOMAIN twoFactorAuth' \ DOMAIN twoFactorAuth :
                ~twoFactorAuth'[i].isEnabled]_vars

\* setupTwoFactor was refused for a user with an enabled credential, after an
\* earlier setupTwoFactor of this behaviour had stored a disabled row.
C27_Witness ==
    \E p \in Procs :
        /\ req[p].op = "setupTwoFactor" /\ req[p].pc = "done"
        /\ req[p].result = "TwoFactorAlreadyEnabled"
        /\ TwoFactorRows(req[p].user, TRUE) # {}
        /\ Len(twoFactorAuth) > 3
        /\ ~twoFactorAuth[Len(twoFactorAuth)].isEnabled

\* C28: enableTwoFactor sets isEnabled on a row only after the supplied code verified
\* against the secret of that same row: a row becomes enabled only by the step of an
\* enableTwoFactor request of the row's user that found this row and whose code is the
\* one of the row's secret, and no other row changes with it.  With a wrong code the
\* request ends with the invalid-code failure, and with no disabled row of the user
\* it ends with the setup-not-found failure; neither changes the table.
C28_EnableOnlyAfterOwnCode ==
    [][/\ \A p \in Procs :
             Starts(p, "enableTwoFactor") =>
                /\ UNCHANGED twoFactorAuth
                /\ IF TwoFactorRows(req'[p].user, FALSE) = {}
                   THEN /\ req'[p].pc = "done" /\ ~req'[p].success
                        /\ req'[p].result = "TwoFactorSetupNotFound"
                   ELSE /\ req'[p].tf \in TwoFactorRows(req'[p].user, FALSE)
                        /\ IF req'[p].code = twoFactorAuth[req'[p].tf].secret
                           THEN req'[p].pc = "enable"
                           ELSE /\ req'[p].pc = "done" /\ ~req'[p].success
                                /\ req'[p].result = "InvalidVerificationCode"
       /\ \A i \in DOMAIN twoFactorAuth :
             (~twoFactorAuth[i].isEnabled /\ twoFactorAuth'[i].isEnabled) =>
                /\ \E p \in Procs :
                      /\ Ends(p, "enableTwoFactor") /\ req'[p].success
                      /\ req[p].tf = i
                      /\ req[p].user = twoFactorAuth[i].userId
                      /\ req[p].code = twoFactorAuth[i].secret
                /\ twoFactorAuth' = [twoFactorAuth EXCEPT ![i].isEnabled = TRUE]]_vars

\* enableTwoFactor ended with the invalid-code failure for a code that is the secret
\* of another row, and the row it found is still disabled.
C28_Witness ==
    \E p \in Procs :
        /\ req[p].op = "enableTwoFactor" /\ req[p].pc = "done"
        /\ req[p].result = "InvalidVerificationCode"
        /\ req[p].code # "000000"
        /\ ~twoFactorAuth[req[p].tf].isEnabled
        /\ \E i \in DOMAIN twoFactorAuth : twoFactorAuth[i].isEnabled /\ i > 2

\* C29: a two-factor login succeeds only with a challenge token issued for the user
\* who is logging in.  A login that presents a stored, unused, unexpired 2fa token of
\* another user ends with the invalid-token failure, whatever the password and the
\* code, and leaves that token unused.
C29_ChallengeTokenOfSameUser ==
    \A p \in Procs :
        req[p].op = "login" =>
            /\ (req[p].result = "LoginSuccessful" /\ req[p].tf # 0) =>
                  req[p].seenType = "2fa" /\ req[p].seenOwner = LoginUser(p)
            /\ ( /\ req[p].seenType = "2fa" /\ req[p].seenAge = "before"
                 /\ ~req[p].seenUsed
                 /\ req[p].seenOwner # LoginUser(p) )
               => /\ req[p].pc = "done" /\ ~req[p].success /\ ~req[p].bearer
                  /\ req[p].result = "InvalidTwoFactorToken"
                  /\ req[p].token \notin consumed
                  /\ \A r \in authTokens : r.token = req[p].token => ~r.isUsed

\* bob, with his password and the code of his own secret, presented an unused,
\* unexpired challenge token of alice and was refused.
C29_Witness ==
    \E p \in Procs :
        /\ req[p].op = "login" /\ req[p].pc = "done"
        /\ req[p].email = "bob@x.com" /\ req[p].seenOwner = 1
        /\ req[p].seenType = "2fa" /\ req[p].seenAge = "before" /\ ~req[p].seenUsed
        /\ Compare(req[p].password, users[2].password)
        /\ req[p].code = req[p].secret
        /\ req[p].result = "InvalidTwoFactorToken"

\* C30: several tokens of one kind may be outstanding for one user, and consuming one
\* leaves the others as they were: a row is used exactly when markTokenAsUsed was
\* called on its own value, every unused row is returned by verifyAuthToken for its
\* own kind as long as the time is before its own expiresAt, and a verifyEmail or
\* resetPassword request that presents such a row is accepted for the row's user.
C30_OtherTokensStayValid ==
    /\ \A r \in authTokens :
          /\ r.isUsed <=> r.token \in consumed
          /\ (~r.isUsed /\ r.expiresAt > now) =>
                verifyAuthToken(authTokens, r.token, r.type, now) = r
    /\ \A p \in Procs :
          ( /\ req[p].op \in {"verifyEmail", "resetPassword"}
            /\ req[p].seenType = KindOf(req[p].op)
            /\ req[p].seenAge = "before" /\ ~req[p].seenUsed )
          => req[p].authUser = req[p].seenOwner

\* Of two password_reset tokens of one user the first has been consumed by a
\* successful resetPassword, and the second is unused and still verifies.
C30_Witness ==
    \E r1, r2 \in authTokens :
        /\ r1.token # r2.token /\ r1.userId = r2.userId
        /\ r1.type = "password_reset" /\ r2.type = "password_reset"
        /\ r1.isUsed /\ ~r2.isUsed
        /\ verifyAuthToken(authTokens, r2.token, "password_reset", now) = r2
        /\ \E p \in Procs :
              /\ req[p].op = "resetPassword" /\ req[p].pc = "done" /\ req[p].success
              /\ req[p].token = r1.token

\* What the claim says of a template: the placeholders whose key is defined in the
\* data dictionary (an own key with a value) are replaced by the string form of the
\* value, every other piece stays as written.
RECURSIVE Rendered(_, _, _)
Rendered(template, data, i) ==
    IF i > Len(template) THEN <<>>
    ELSE IF Match(template, i)
         THEN (IF GetOwn(data, template[i + 2]).defined
               THEN data[template[i + 2]].string
               ELSE SubSeq(template, i, i + 4))
              \o Rendered(template, data, i + 5)
         ELSE <<template[i]>> \o Rendered(template, data, i + 1)

\* C31: template rendering replaces every {{key}} whose key is defined in the data
\* dictionary by the string form of its value, unescaped, and leaves every {{key}}
\* with an undefined key and all other text exactly as written.
C31_RenderReplacesDefinedKeysOnly ==
    \A k \in DOMAIN emailQueue :
        "template" \in DOMAIN emailQueue[k] =>
            emailQueue[k].subject =
                Rendered(emailQueue[k].template, emailQueue[k].templateData, 1)

\* The reset request of p holds a token that the ledger had as an unused, unexpired
\* password_reset token when the request read it.
ResetTokenValid(r) ==
    r.seenType = "password_reset" /\ r.seenAge = "before" /\ ~r.seenUsed

\* C32: resetPassword validates the strength, then verifies the token, then updates
\* the hash, then consumes the token, then deletes the sessions.  A weak password is
\* rejected whatever the token, an invalid token after that, and both rejections
\* change no user, no token and no session; the token is marked used only with the
\* new hash already stored, and sessions are deleted only with the new hash stored
\* and the token used, in the step that returns success.
C32_ResetPasswordOrder ==
    [][\A p \in Procs :
          /\ Starts(p, "resetPassword") =>
                /\ UNCHANGED <<users, authTokens, sessions>>
                /\ IF ~validatePassword(req'[p].password)
                   THEN /\ req'[p].pc = "done" /\ ~req'[p].success
                        /\ req'[p].result = "WeakPassword"
                   ELSE IF ~ResetTokenValid(req'[p])
                   THEN /\ req'[p].pc = "done" /\ ~req'[p].success
                        /\ req'[p].result = "InvalidOrExpiredToken"
                   ELSE req'[p].pc = "updatePassword"
          /\ (req[p].op = "resetPassword" /\ req[p].pc # "done") =>
                /\ users' # users =>
                      /\ req[p].pc = "updatePassword"
                      /\ UNCHANGED <<authTokens, sessions>>
                /\ authTokens' # authTokens =>
                      /\ users[req[p].authUser].password = Hash(req[p].password)
                      /\ UNCHANGED <<users, sessions>>
                /\ sessions' # sessions =>
                      /\ users[req[p].authUser].password = Hash(req[p].password)
                      /\ \A r \in authTokens : r.token = req[p].token => r.isUsed
                      /\ UNCHANGED <<users, authTokens>>
                      /\ req'[p].pc = "done" /\ req'[p].success]_vars

\* A resetPassword has returned success: the hash is the new one, the token is used
\* and a session the user had before is gone.
C32_Witness ==
    \E p \in Procs :
        /\ req[p].op = "resetPassword" /\ req[p].pc = "done" /\ req[p].success
        /\ users[req[p].authUser].password = Hash(req[p].password)
        /\ \E s \in req[p].sessBefore : s.userId = req[p].authUser /\ s \notin sessions

\* C33: when a failure is recorded for an identifier whose previous failure is older
\* than the window, the counter becomes 1; when the previous failure is inside the
\* window (or there is none), the counter is raised by one; in both cases the anchor
\* is set to the current time.
C33_RecordResetsStaleCounter ==
    [][\A e \in Emails :
          Len(fails'[e]) > Len(fails[e]) =>
              /\ attempts'[e].lastAttempt = now
              /\ attempts'[e].count =
                    IF attempts[e] # NoEntry /\ now - attempts[e].lastAttempt > timeWindow
                    THEN 1
                    ELSE attempts[e].count + 1]_vars

\* C34: the token sweep deletes every token row that is used and every token row
\* whose expiresAt is older than now minus the retention period, and it keeps every
\* token that is unused and unexpired.
C34_SweepUsedAndOldTokens ==
    [][(cleanupPc = "idle" /\ cleanupPc' = "sessions") =>
          \A r \in authTokens :
              /\ (r.isUsed \/ r.expiresAt < now - retention) => r \notin authTokens'
              /\ (~r.isUsed /\ r.expiresAt > now) => r \in authTokens']_vars

\* C35: the cleanup removes only sessions that have expired: a session whose
\* expiresAt is later than the time of the run is still there after it.
C35_CleanupKeepsLiveSessions ==
    [][(cleanupPc = "sessions" /\ cleanupPc' = "idle") =>
          \A s \in sessions : s.expiresAt > now => s \in sessions']_vars

\* C36: with logins for one email running concurrently, the failed credential checks
\* admitted for the email inside one window never exceed the threshold, and no
\* recorded failure is lost: the counter of an email equals the number of failures
\* recorded since it was last cleared and is never above loginAttempts.  (The clock
\* stands still in SpecRace: all failures fall inside one window.)
C36_FailuresBoundedUnderConcurrency ==
    \A e \in Emails :
        /\ attempts[e].count = Len(fails[e])
        /\ attempts[e].count <= loginAttempts

\* A resetPassword for this user has returned success.
ResetSucceededFor(userId) ==
    \E r \in authTokens :
        /\ r.type = "password_reset" /\ r.userId = userId
        /\ \E k \in DOMAIN wins : wins[k] = r.token

\* C37: when a login for a user runs concurrently with a resetPassword for the same
\* user, then once resetPassword has returned success and the login has finished, no
\* session row exists for the user that was created by a login whose password was
\* checked against the old hash.
C37_NoSessionFromOldPassword ==
    \A p \in Procs :
        ( /\ req[p].op = "login" /\ req[p].pc = "done"
          /\ req[p].result = "LoginSuccessful"
          /\ req[p].hash # users[req[p].user].password
          /\ ResetSucceededFor(req[p].user) )
        => \A s \in sessions \ req[p].sessBefore : s.userId # req[p].user

\* The row of the user's most recent setupTwoFactor call.
LatestCredential(userId) ==
    CHOOSE i \in DOMAIN twoFactorAuth :
        /\ twoFactorAuth[i].userId = userId
        /\ \A j \in DOMAIN twoFactorAuth : twoFactorAuth[j].userId = userId => j <= i

\* C38: after setupTwoFactor has been called more than once for a user without
\* enabling, an enableTwoFactor call with the code of the secret that the most recent
\* setupTwoFactor returned passes the verification, and the row it goes on to enable
\* is the one holding that secret.
C38_EnableUsesLatestSecret ==
    \A p \in Procs :
        ( /\ req[p].op = "enableTwoFactor" /\ req[p].pc \in {"enable", "done"}
          /\ Cardinality(TwoFactorRows(req[p].user, FALSE)) >= 2
          /\ TwoFactorRows(req[p].user, TRUE) = {}
          /\ req[p].code = twoFactorAuth[LatestCredential(req[p].user)].secret )
        => /\ req[p].pc = "enable"
           /\ req[p].tf = LatestCredential(req[p].user)

\* C39: a queued email whose transport call succeeded ends in status sent with its
\* attempts unchanged and is never recorded as failed, also when the store update
\* that follows the transport call fails; the same email is not delivered a second
\* time.  (A row is in status sending between the transport call and the update.)
C39_DeliveredNeverFailed ==
    \A k \in DOMAIN emailQueue :
        "delivered" \in DOMAIN emailQueue[k] =>
            /\ emailQueue[k].delivered <= 1
            /\ emailQueue[k].delivered = 1 =>
                  /\ emailQueue[k].status \in {"sending", "sent"}
                  /\ emailQueue[k].attempts + 1 = emailQueue[k].calls

====
